---- MODULE Spec2Model ----
(***************************************************************************)
(* A model of the ingestion pipeline of political-rag: the controller of   *)
(* src/main.py (DataScrapingOrchestrator), the persistence operations of   *)
(* src/database/db_operations.py, the text segmenter of                    *)
(* src/processors/chunker.py and the normaliser of                         *)
(* src/processors/normalizer.py / src/utils/helpers.py.                    *)
(*                                                                         *)
(* Text is a sequence of one-character strings.  A Python dict is a        *)
(* function whose DOMAIN is its set of keys, so that a missing key is a    *)
(* key outside the DOMAIN.  Python's None is the value None.               *)
(***************************************************************************)
EXTENDS Integers, Sequences, FiniteSets, TLC

(***************************************************************************)
(* Bounds of the model.                                                    *)
(***************************************************************************)
\* the number of sources the scrapers of one run return, all together
MaxSources == 2
\* words per chunk (settings.CHUNK_SIZE, scaled to the size of the texts)
chunk_size == 4

(***************************************************************************)
(* Characters and strings.                                                 *)
(***************************************************************************)
\* Python's None where a string, an id or a vector is expected
None == "None"
\* Python's None where a text or a vector is expected (no text holds a
\* 4-letter character)
NoneText == <<"None">>

\* the characters Python's \s matches, as far as the texts here use them
Whitespace == {" ", "\n", "\t"}

\* the characters of the class [ред.!?] of _split_sentences; the three
\* Cyrillic letters are written by their code points
SentenceEnd == {"U+0440", "U+0435", "U+0434", ".", "!", "?"}

\* the characters clean_text keeps besides whitespace: \w and .,!?-
KeptChars == {"a", "b", "c", "U+0440", "U+0435", "U+0434", ".", ",", "!", "?", "-", "_"}

RECURSIVE lstrip(_)
lstrip(s) ==
    IF s = <<>> THEN s
    ELSE IF Head(s) \in Whitespace THEN lstrip(Tail(s)) ELSE s

RECURSIVE rstrip(_)
rstrip(s) ==
    IF s = <<>> THEN s
    ELSE IF s[Len(s)] \in Whitespace THEN rstrip(SubSeq(s, 1, Len(s) - 1)) ELSE s

\* str.strip()
strip(s) == rstrip(lstrip(s))

\* len(s.split()): the number of maximal runs of non-whitespace characters
WordCount(s) ==
    Cardinality({i \in 1..Len(s) :
                    /\ s[i] \notin Whitespace
                    /\ (i = 1 \/ s[i - 1] \in Whitespace)})

\* re.sub(r'\s+', ' ', text)
RECURSIVE CollapseWhitespace(_)
CollapseWhitespace(s) ==
    IF s = <<>> THEN s
    ELSE IF Head(s) \in Whitespace
         THEN <<" ">> \o CollapseWhitespace(lstrip(s))
         ELSE <<Head(s)>> \o CollapseWhitespace(Tail(s))

\* re.sub(r'[^\w\s\u0900-\u097F.,!?-]', '', text)
RemoveSpecial(s) == SelectSeq(s, LAMBDA c : c \in KeptChars \cup Whitespace)

clean_text(text) ==
    IF text = NoneText \/ text = <<>> THEN <<>>
    ELSE strip(RemoveSpecial(CollapseWhitespace(text)))

\* re.split(r'[ред.!?]+', text): the pieces between maximal runs of
\* sentence-end characters, empty pieces included
RECURSIVE ReSplit(_, _, _, _)
ReSplit(s, i, cur, acc) ==
    IF i > Len(s) THEN Append(acc, cur)
    ELSE IF s[i] \in SentenceEnd
         THEN IF i > 1 /\ s[i - 1] \in SentenceEnd
              THEN ReSplit(s, i + 1, cur, acc)
              ELSE ReSplit(s, i + 1, <<>>, Append(acc, cur))
         ELSE ReSplit(s, i + 1, Append(cur, s[i]), acc)

RECURSIVE StripAll(_)
StripAll(ss) ==
    IF ss = <<>> THEN <<>> ELSE <<strip(Head(ss))>> \o StripAll(Tail(ss))

split_sentences(text) ==
    SelectSeq(StripAll(ReSplit(text, 1, <<>>, <<>>)), LAMBDA s : s # <<>>)

\* ' '.join(parts)
RECURSIVE Join(_)
Join(parts) ==
    IF parts = <<>> THEN <<>>
    ELSE IF Len(parts) = 1 THEN parts[1]
    ELSE parts[1] \o <<" ">> \o Join(Tail(parts))

RECURSIVE SumWords(_)
SumWords(ss) ==
    IF ss = <<>> THEN 0 ELSE WordCount(Head(ss)) + SumWords(Tail(ss))

(***************************************************************************)
(* Chunker.chunk_text                                                      *)
(***************************************************************************)
\* the least number of characters a text must have to be chunked
MinContentLen == 50

\* MakeChunk without seq += 1: every chunk numbered 0
MakeChunk_SeqZero(source_id, seq, current_chunk) ==
    [source_id  |-> source_id,
     seq        |-> 0,
     text       |-> Join(current_chunk),
     word_count |-> WordCount(Join(current_chunk))]

MakeChunk(source_id, seq, current_chunk) ==
    [source_id  |-> source_id,
     seq        |-> seq,
     text       |-> Join(current_chunk),
     word_count |-> WordCount(Join(current_chunk))]

\* current_chunk[-3:]: three sentences of overlap
OverlapSentences_Three(current_chunk) ==
    IF Len(current_chunk) >= 3
    THEN SubSeq(current_chunk, Len(current_chunk) - 2, Len(current_chunk))
    ELSE current_chunk

\* no overlap: the new chunk starts with the sentence that forced the split
OverlapSentences_None(current_chunk) == SubSeq(current_chunk, 1, 0)

\* current_chunk[-1:]: one sentence of overlap
OverlapSentences_One(current_chunk) ==
    IF Len(current_chunk) >= 1
    THEN SubSeq(current_chunk, Len(current_chunk), Len(current_chunk))
    ELSE current_chunk

\* current_chunk[-2:] if len(current_chunk) >= 2 else current_chunk
OverlapSentences(current_chunk) ==
    IF Len(current_chunk) >= 2
    THEN SubSeq(current_chunk, Len(current_chunk) - 1, Len(current_chunk))
    ELSE current_chunk

\* the loop over the sentences, without the remaining chunk after it
RECURSIVE ChunkLoop_NoRemainder(_, _, _, _, _)
ChunkLoop_NoRemainder(sentences, source_id, chunks, current_chunk, current_length) ==
    IF sentences = <<>> THEN chunks
    ELSE LET sentence == Head(sentences)
             sentence_length == WordCount(sentence)
         IN  IF current_length + sentence_length > chunk_size /\ current_chunk # <<>>
             THEN LET next_chunk == OverlapSentences(current_chunk) \o <<sentence>>
                  IN  ChunkLoop_NoRemainder(Tail(sentences), source_id,
                                Append(chunks, MakeChunk(source_id, Len(chunks), current_chunk)),
                                next_chunk, SumWords(next_chunk))
             ELSE ChunkLoop_NoRemainder(Tail(sentences), source_id, chunks,
                            Append(current_chunk, sentence),
                            current_length + sentence_length)

\* the loop over the sentences, then the remaining chunk
RECURSIVE ChunkLoop(_, _, _, _, _)
ChunkLoop(sentences, source_id, chunks, current_chunk, current_length) ==
    IF sentences = <<>>
    THEN IF current_chunk # <<>>
         THEN Append(chunks, MakeChunk(source_id, Len(chunks), current_chunk))
         ELSE chunks
    ELSE LET sentence == Head(sentences)
             sentence_length == WordCount(sentence)
         IN  IF current_length + sentence_length > chunk_size /\ current_chunk # <<>>
             THEN LET next_chunk == OverlapSentences(current_chunk) \o <<sentence>>
                  IN  ChunkLoop(Tail(sentences), source_id,
                                Append(chunks, MakeChunk(source_id, Len(chunks), current_chunk)),
                                next_chunk, SumWords(next_chunk))
             ELSE ChunkLoop(Tail(sentences), source_id, chunks,
                            Append(current_chunk, sentence),
                            current_length + sentence_length)

\* chunk_text measuring len(text), the text not stripped
chunk_text_NoStrip(text, source_id) ==
    IF text = <<>> \/ Len(text) < MinContentLen THEN <<>>
    ELSE ChunkLoop(split_sentences(text), source_id, <<>>, <<>>, 0)

chunk_text(text, source_id) ==
    IF text = <<>> \/ Len(strip(text)) < MinContentLen THEN <<>>
    ELSE ChunkLoop(split_sentences(text), source_id, <<>>, <<>>, 0)

(***************************************************************************)
(* Python dicts                                                            *)
(***************************************************************************)
\* d[k] = v
Put(d, k, v) == [x \in DOMAIN d \cup {k} |-> IF x = k THEN v ELSE d[x]]

\* d.pop(k, None), for its effect on d
Pop(d, k) == [x \in DOMAIN d \ {k} |-> d[x]]

(***************************************************************************)
(* Normalizer.normalize_source and its helpers                             *)
(***************************************************************************)
\* extract_geo_from_text: no text of the model names the district or a ward
extract_geo_from_text(text) ==
    [country |-> "IN", state |-> "MP", district |-> None, ward |-> None]

DefaultGeo == [country |-> "IN", state |-> "MP", district |-> "Indore"]

normalize_source(source) ==
    LET s1 == IF "title" \in DOMAIN source
              THEN Put(source, "title", clean_text(source["title"]))
              ELSE source
        s2 == IF "raw_content" \in DOMAIN s1
              THEN LET s == Put(s1, "raw_content", clean_text(s1["raw_content"]))
                   IN  IF "geo" \notin DOMAIN s
                       THEN Put(s, "geo", extract_geo_from_text(s["raw_content"]))
                       ELSE s
              ELSE s1
    IN  IF "geo" \notin DOMAIN s2 THEN Put(s2, "geo", DefaultGeo) ELSE s2

(***************************************************************************)
(* DatabaseOperations.  Each operation takes the table it writes and       *)
(* db_ok, whether the session works during the call (a failing session     *)
(* raises inside the operation's try block), and gives its return value,   *)
(* the table after the call, and raised: whether an exception leaves the   *)
(* operation (each body is one try with except Exception).                 *)
(***************************************************************************)
\* the identities uuid4 hands out, in the order they are drawn
SourceIds == <<"s1", "s2", "s3", "s4">>

\* the row .first() finds for the URL
Existing(rows, url) ==
    LET hits == {i \in 1..Len(rows) : rows[i].source_url = url}
    IN  IF hits = {} THEN None
        ELSE rows[CHOOSE i \in hits : \A j \in hits : i <= j].id

\* save_source without the lookup of the URL: every call inserts
save_source_NoLookup(source_data, rows, db_ok) ==
    IF "source_url" \notin DOMAIN source_data \/ ~db_ok
    THEN [id |-> None, rows |-> rows, raised |-> FALSE]
    ELSE LET source == [id         |-> SourceIds[Len(rows) + 1],
                        source_url |-> source_data["source_url"],
                        title      |-> IF "title" \in DOMAIN source_data
                                       THEN source_data["title"] ELSE NoneText]
         IN  IF source.title = NoneText
             THEN [id |-> None, rows |-> Append(rows, source), raised |-> FALSE]
             ELSE [id |-> source.id, rows |-> Append(rows, source), raised |-> FALSE]

save_source(source_data, rows, db_ok) ==
    IF "source_url" \notin DOMAIN source_data
    THEN \* KeyError, inside the try: rollback, return None
         [id |-> None, rows |-> rows, raised |-> FALSE]
    ELSE IF ~db_ok
    THEN [id |-> None, rows |-> rows, raised |-> FALSE]
    ELSE IF Existing(rows, source_data["source_url"]) # None
    THEN [id |-> Existing(rows, source_data["source_url"]), rows |-> rows,
          raised |-> FALSE]
    ELSE LET source == [id         |-> SourceIds[Len(rows) + 1],
                        source_url |-> source_data["source_url"],
                        title      |-> IF "title" \in DOMAIN source_data
                                       THEN source_data["title"] ELSE NoneText]
         IN  IF source.title = NoneText
             THEN \* committed; then source.title[:50] raises in the log line
                  [id |-> None, rows |-> Append(rows, source), raised |-> FALSE]
             ELSE [id |-> source.id, rows |-> Append(rows, source), raised |-> FALSE]

\* Chunk(**chunk_copy): the chunk without its embedding fields
ChunkRow(chunk_data) ==
    Pop(Pop(Pop(chunk_data, "embedding_vector"), "embedding_dimension"), "embedding_model")

RECURSIVE ChunkRows(_)
ChunkRows(chunks) ==
    IF chunks = <<>> THEN <<>>
    ELSE <<ChunkRow(Head(chunks))>> \o ChunkRows(Tail(chunks))

\* save_chunks with the commit inside the loop: a failure at the second chunk
\* leaves the first one persisted
save_chunks_CommitEach(chunks, rows, db_ok) ==
    IF db_ok
    THEN [count |-> Len(chunks), rows |-> rows \o ChunkRows(chunks), raised |-> FALSE]
    ELSE [count |-> 0,
          rows  |-> IF chunks = <<>> THEN rows ELSE Append(rows, ChunkRow(chunks[1])),
          raised |-> FALSE]

save_chunks(chunks, rows, db_ok) ==
    IF db_ok
    THEN [count |-> Len(chunks), rows |-> rows \o ChunkRows(chunks), raised |-> FALSE]
    ELSE [count |-> 0, rows |-> rows, raised |-> FALSE]

log_scraping(url, scraper_type, status, items_scraped, error_message, rows, db_ok) ==
    IF db_ok
    THEN Append(rows, [source_url    |-> url,
                       scraper_type  |-> scraper_type,
                       status        |-> status,
                       items_scraped |-> items_scraped,
                       error_message |-> error_message])
    ELSE rows

(***************************************************************************)
(* The sources the scrapers return.                                        *)
(***************************************************************************)
Word == <<"a", "a", "a", "a", "a", "a", "a", "a">>
Sentence == Word \o <<" ">> \o Word \o <<".">>

\* three sentences with untidy whitespace and a character clean_text removes
LongText == Sentence \o <<"\n", "\n">> \o Sentence \o <<" ", "#", " ">> \o Sentence \o <<" ">>
\* fewer than MinContentLen characters
ShortText == Word \o <<" ">> \o Word \o <<".">>
\* MinContentLen characters and no sentence
NoSentenceText == [i \in 1..MinContentLen |-> "!"]

Title == <<"a", " ", "b">>

\* dicts as BaseScraper.create_source_dict builds them: source_url and title
\* always, raw_content when the scraper adds it (the file sources of the
\* government scraper have none)
SourceDicts ==
    { [source_url |-> "u1", title |-> Title, raw_content |-> LongText],
      [source_url |-> "u2", title |-> Title, raw_content |-> ShortText],
      [source_url |-> "u2", title |-> Title, raw_content |-> NoSentenceText],
      [source_url |-> "u2", title |-> Title] }

\* dicts no scraper of the repository builds: a required key is missing
MalformedDicts ==
    { [source_url |-> "u1", raw_content |-> LongText],
      [title |-> Title, raw_content |-> LongText] }

\* the keys a source dict is required to have
RequiredKeys == {"source_url", "title", "raw_content"}

\* what scrape() may return when the run has handled so many sources
ScrapeResults(pool, handled) == UNION {[1..n -> pool] : n \in 0..(MaxSources - handled)}

\* self.scrapers
Scrapers == {"government", "media", "social", "youtube"}

\* the arguments of run_full_pipeline: lists of known and unknown scraper types,
\* with limit_per_scraper None (0 stands for it: both are falsy) or a number
RunArguments ==
    { [scraper_types |-> <<>>, limit_per_scraper |-> 0],
      [scraper_types |-> <<"blog">>, limit_per_scraper |-> 0],
      [scraper_types |-> <<"media">>, limit_per_scraper |-> 0],
      [scraper_types |-> <<"media">>, limit_per_scraper |-> 1],
      [scraper_types |-> <<"government", "blog", "media">>, limit_per_scraper |-> 0] }

(***************************************************************************)
(* The state.                                                              *)
(***************************************************************************)
VARIABLES
    pc,          \* the statement the orchestrator is at
    embedder,    \* self.embedder is not None
    stats,       \* self.stats
    db_sources,  \* table sources
    db_chunks,   \* table chunks
    db_logs,     \* table scraping_logs
    run,         \* the frame of run_full_pipeline (chunks0: the chunk rows at its start)
    st,          \* the frame of _process_scraper_type
    fr,          \* the frame of _process_single_source
    obs,         \* what the current call of _process_single_source has done
    dicts,       \* the source dicts the scrapers may return
    calls,       \* the calls a client made of DatabaseOperations directly
    tag,         \* a call of Tagger.tag_chunk
    seg,         \* a call of Chunker.chunk_text
    batch,       \* a call of Embedder.generate_batch_embeddings
    emb,         \* a call of Embedder.embed_chunks_batch
    proc,        \* main: where it is, and the calls of orchestrator.close()
    conf,        \* a call of Tagger._calculate_confidence
    crawl        \* a call of MediaScraper.scrape_media_source

\* the state of the components when they are called on their own
unitVars == <<calls, tag, seg, batch, emb, proc, conf, crawl>>

vars == <<pc, embedder, stats, db_sources, db_chunks, db_logs, run, st, fr, obs, dicts,
          unitVars>>

\* the return value of _process_single_source: None, or a count
ReturnedNone == <<>>
Returned(n) == <<n>>

\* the observations at the start of a call of _process_single_source, given the
\* statistics and the tables at that moment
NewObs(source_data, stats0, sources0, chunks0) ==
    [input        |-> source_data,
     existed      |-> /\ "source_url" \in DOMAIN source_data
                      /\ Existing(sources0, source_data["source_url"]) # None,
     stats0       |-> stats0,
     chunks0      |-> chunks0,
     log_calls    |-> <<>>,
     step         |-> "called",
     segmented    |-> FALSE,
     tag_calls    |-> <<>>,
     raised       |-> {},
     embed_calls  |-> 0,
     embed_raised |-> FALSE,
     save_calls   |-> <<>>,
     failed_step  |-> "none"]

NoFrame == [source_data |-> [source_url |-> None], source_id |-> None, chunks |-> <<>>,
            chunk_idx |-> 0, tagged_chunks |-> <<>>, saved_count |-> 0,
            e |-> None, ret |-> ReturnedNone]

\* self.stats as __init__ sets it (start_time left out)
NewStats == [total_sources |-> 0, total_chunks |-> 0, total_embeddings |-> 0,
             failed_sources |-> 0, failed_chunks |-> 0]

\* no call of _process_single_source is under way
NoObs == NewObs(NoFrame.source_data, NewStats, <<>>, <<>>)

\* _process_scraper_type is not under way
NoScraperFrame == [scraper_type |-> None, sources |-> <<>>, idx |-> 0,
                   scraper_sources |-> 0, scraper_chunks |-> 0]

\* the orchestrator after __init__, with an empty database
Constructed ==
    /\ pc = "main"
    /\ embedder \in BOOLEAN
    /\ stats = NewStats
    /\ db_sources = <<>>
    /\ db_chunks = <<>>
    /\ db_logs = <<>>
    /\ run = [scraper_types |-> <<>>, limit_per_scraper |-> 0, i |-> 0,
              attempted |-> <<>>, handled |-> 0, chunks0 |-> 0]
    /\ st = NoScraperFrame
    /\ fr = NoFrame
    /\ obs = NoObs

\* no component has been called on its own
UnitsIdle ==
    /\ calls = <<>>
    /\ tag = [at |-> "idle"]
    /\ seg = [at |-> "idle"]
    /\ batch = [at |-> "idle"]
    /\ emb = [at |-> "idle"]
    /\ proc = [at |-> "idle"]
    /\ conf = [at |-> "idle"]
    /\ crawl = [at |-> "idle"]

\* the scrapers of the repository
Init == Constructed /\ dicts = SourceDicts /\ UnitsIdle

\* scrapers that break the contract of the source dicts
InitAnyDict == Constructed /\ dicts = SourceDicts \cup MalformedDicts /\ UnitsIdle

(***************************************************************************)
(* run_full_pipeline and _process_scraper_type                             *)
(***************************************************************************)
\* main calls run_full_pipeline(scraper_types, limit_per_scraper)
RunFullPipeline ==
    /\ pc = "main"
    /\ \E args \in RunArguments :
          run' = [scraper_types |-> args.scraper_types,
                  limit_per_scraper |-> args.limit_per_scraper, i |-> 1,
                  attempted |-> <<>>, handled |-> 0,
                  chunks0 |-> Len(db_chunks)]
    /\ pc' = "for_scraper_type"
    /\ UNCHANGED <<unitVars, dicts, embedder, stats, db_sources, db_chunks, db_logs, st, fr, obs>>

\* for scraper_type in scraper_types: an unknown type is skipped
SkipUnknownType ==
    /\ pc = "for_scraper_type"
    /\ run.i <= Len(run.scraper_types)
    /\ run.scraper_types[run.i] \notin Scrapers
    /\ run' = [run EXCEPT !.i = @ + 1]
    /\ UNCHANGED <<unitVars, dicts, pc, embedder, stats, db_sources, db_chunks, db_logs, st, fr, obs>>

\* self._process_scraper_type(scraper_type, limit_per_scraper) is entered
ProcessScraperType ==
    /\ pc = "for_scraper_type"
    /\ run.i <= Len(run.scraper_types)
    /\ run.scraper_types[run.i] \in Scrapers
    /\ st' = [NoScraperFrame EXCEPT !.scraper_type = run.scraper_types[run.i]]
    /\ run' = [run EXCEPT !.attempted = Append(@, run.scraper_types[run.i])]
    /\ pc' = "scrape"
    /\ UNCHANGED <<unitVars, dicts, embedder, stats, db_sources, db_chunks, db_logs, fr, obs>>

\* sources[:limit] when limit and len(sources) > limit
ApplyLimit(sources, limit) ==
    IF limit # 0 /\ Len(sources) > limit THEN SubSeq(sources, 1, limit) ELSE sources

\* Scrape with the try of _process_scraper_type left out: an exception of
\* scrape() leaves run_full_pipeline
Scrape_Uncaught ==
    /\ pc = "scrape"
    /\ \/ \E sources \in ScrapeResults(dicts, run.handled) :
             IF sources = <<>>
             THEN /\ pc' = "finally_scraper"
                  /\ st' = st
             ELSE /\ pc' = "for_source"
                  /\ st' = [st EXCEPT !.sources = ApplyLimit(sources, run.limit_per_scraper),
                                      !.idx = 1]
       \/ /\ pc' = "raised"
          /\ st' = st
    /\ UNCHANGED <<unitVars, dicts, embedder, stats, db_sources, db_chunks, db_logs, run, fr, obs>>

\* Step 1 of _process_scraper_type: scraper.scrape() returns a list, or raises;
\* the exception is caught by the except clause of _process_scraper_type
Scrape ==
    /\ pc = "scrape"
    /\ \/ \E sources \in ScrapeResults(dicts, run.handled) :
             IF sources = <<>>
             THEN /\ pc' = "finally_scraper"
                  /\ st' = st
             ELSE /\ pc' = "for_source"
                  /\ st' = [st EXCEPT !.sources = ApplyLimit(sources, run.limit_per_scraper),
                                      !.idx = 1]
       \/ /\ pc' = "finally_scraper"
          /\ st' = st
    /\ UNCHANGED <<unitVars, dicts, embedder, stats, db_sources, db_chunks, db_logs, run, fr, obs>>

\* for idx, source_data in enumerate(sources, 1): the call of _process_single_source
CallProcessSingleSource ==
    /\ pc = "for_source"
    /\ st.idx <= Len(st.sources)
    /\ fr' = [NoFrame EXCEPT !.source_data = st.sources[st.idx]]
    /\ obs' = NewObs(st.sources[st.idx], stats, db_sources, db_chunks)
    /\ run' = [run EXCEPT !.handled = @ + 1]
    /\ pc' = "normalize"
    /\ UNCHANGED <<unitVars, dicts, embedder, stats, db_sources, db_chunks, db_logs, st>>

\* the loop over the sources is over
SourcesDone ==
    /\ pc = "for_source"
    /\ st.idx > Len(st.sources)
    /\ pc' = "finally_scraper"
    /\ UNCHANGED <<unitVars, dicts, embedder, stats, db_sources, db_chunks, db_logs, run, st, fr, obs>>

\* the finally clause of _process_scraper_type, and the return to the loop of
\* run_full_pipeline
FinallyScraper ==
    /\ pc = "finally_scraper"
    /\ run' = [run EXCEPT !.i = @ + 1]
    /\ st' = NoScraperFrame
    /\ pc' = "for_scraper_type"
    /\ UNCHANGED <<unitVars, dicts, embedder, stats, db_sources, db_chunks, db_logs, fr, obs>>

\* if success: scraper_sources += 1; scraper_chunks += success
ReturnToLoop ==
    /\ pc = "return_source"
    /\ st' = [st EXCEPT !.idx = @ + 1,
                        !.scraper_sources = IF fr.ret # ReturnedNone /\ fr.ret[1] # 0
                                            THEN @ + 1 ELSE @,
                        !.scraper_chunks = IF fr.ret # ReturnedNone /\ fr.ret[1] # 0
                                           THEN @ + fr.ret[1] ELSE @]
    /\ fr' = NoFrame
    /\ obs' = NoObs
    /\ pc' = "for_source"
    /\ UNCHANGED <<unitVars, dicts, embedder, stats, db_sources, db_chunks, db_logs, run>>

\* a / b raises ZeroDivisionError
ZeroDivision(a, b) == b = 0

\* _print_final_report computing the average and the rate whatever the
\* counters are
ReportRaises_NoGuard(counters) ==
    \/ ZeroDivision(counters.total_chunks, counters.total_sources)
    \/ ZeroDivision(counters.total_sources,
                    counters.total_sources + counters.failed_sources)

\* _print_final_report raises: one of its two divisions is by zero
ReportRaises(counters) ==
    /\ counters.total_sources > 0
    /\ \/ ZeroDivision(counters.total_chunks, counters.total_sources)
       \/ ZeroDivision(counters.total_sources,
                       counters.total_sources + counters.failed_sources)

\* self._print_final_report(), the last statement of run_full_pipeline
PrintFinalReport ==
    /\ pc = "for_scraper_type"
    /\ run.i > Len(run.scraper_types)
    /\ pc' = IF ReportRaises(stats) THEN "raised" ELSE "done"
    /\ UNCHANGED <<unitVars, dicts, embedder, stats, db_sources, db_chunks, db_logs, run, st, fr, obs>>

(***************************************************************************)
(* Embedder                                                                *)
(***************************************************************************)
\* the least number of characters generate_embedding accepts
MinEmbedLen == 10
\* max_chars of generate_embedding
max_chars == 10000

\* the vector genai.embed_content computes from a text
EmbedContent(text) == <<"embedding">> \o text

\* generate_embedding without the check of the length of the text
generate_embedding_NoLengthCheck(text, api_ok) ==
    IF ~api_ok THEN NoneText
    ELSE EmbedContent(IF Len(text) > max_chars THEN SubSeq(text, 1, max_chars) ELSE text)

\* generate_embedding: None for a short text or a failed call (api_ok false)
generate_embedding(text, api_ok) ==
    IF text = <<>> \/ Len(strip(text)) < MinEmbedLen THEN NoneText
    ELSE IF ~api_ok THEN NoneText
    ELSE EmbedContent(IF Len(text) > max_chars THEN SubSeq(text, 1, max_chars) ELSE text)

\* the loop of embed_chunks_batch over zip(chunks, embeddings); failing is the
\* set of positions whose embedding call fails
RECURSIVE EmbedFrom(_, _, _)
EmbedFrom(chunks, i, failing) ==
    IF i > Len(chunks) THEN <<>>
    ELSE LET embedding == generate_embedding(chunks[i]["text"], i \notin failing)
             chunk == IF embedding # NoneText
                      THEN Put(Put(Put(chunks[i], "embedding_vector", embedding),
                                   "embedding_dimension", Len(embedding)),
                               "embedding_model", "models/embedding-004")
                      ELSE Put(Put(chunks[i], "embedding_vector", NoneText),
                               "embedding_dimension", 0)
         IN  <<chunk>> \o EmbedFrom(chunks, i + 1, failing)

embed_chunks_batch(chunks, failing) == EmbedFrom(chunks, 1, failing)

\* sum(1 for c in tagged_chunks if c.get('embedding_vector'))
EmbeddingsCount(chunks) ==
    Cardinality({i \in 1..Len(chunks) :
                    /\ "embedding_vector" \in DOMAIN chunks[i]
                    /\ chunks[i]["embedding_vector"] # NoneText})

(***************************************************************************)
(* _process_single_source                                                  *)
(***************************************************************************)
\* Step 1: source_data = self.normalizer.normalize_source(source_data), or the
\* normalizer raises
Normalize ==
    /\ pc = "normalize"
    /\ \/ /\ fr' = [fr EXCEPT !.source_data = normalize_source(@)]
          /\ obs' = [obs EXCEPT !.step = "normalize"]
          /\ pc' = "save_source"
       \/ /\ fr' = [fr EXCEPT !.e = "normalize_source failed"]
          /\ obs' = [obs EXCEPT !.step = "normalize", !.failed_step = "normalize"]
          /\ pc' = "except_source"
    /\ UNCHANGED <<unitVars, dicts, embedder, stats, db_sources, db_chunks, db_logs, run, st>>

\* Step 2: source_id = self.db_ops.save_source(source_data); no id: return None
SaveSource ==
    /\ pc = "save_source"
    /\ \E db_ok \in BOOLEAN :
          LET r == save_source(fr.source_data, db_sources, db_ok)
          IN  /\ db_sources' = r.rows
              /\ IF r.id = None
                 THEN /\ fr' = [fr EXCEPT !.ret = ReturnedNone]
                      /\ obs' = [obs EXCEPT !.step = "save_source",
                                            !.failed_step = "save_source"]
                      /\ stats' = stats
                      /\ pc' = "return_source"
                 ELSE /\ fr' = [fr EXCEPT !.source_id = r.id]
                      /\ obs' = [obs EXCEPT !.step = "save_source"]
                      /\ stats' = [stats EXCEPT !.total_sources = @ + 1]
                      /\ pc' = "check_content"
    /\ UNCHANGED <<unitVars, dicts, embedder, db_chunks, db_logs, run, st>>

\* source_data.get('raw_content', '')
Content(source_data) ==
    IF "raw_content" \in DOMAIN source_data THEN source_data["raw_content"] ELSE <<>>

\* not content or len(content.strip()) < 50
Insufficient(content) ==
    content = <<>> \/ content = NoneText \/ Len(strip(content)) < MinContentLen

\* Step 3, the check of the content: insufficient content returns 0
CheckContent ==
    /\ pc = "check_content"
    /\ IF Insufficient(Content(fr.source_data))
       THEN /\ fr' = [fr EXCEPT !.ret = Returned(0)]
            /\ pc' = "return_source"
       ELSE /\ fr' = fr
            /\ pc' = "chunk"
    /\ obs' = [obs EXCEPT !.step = "check_content"]
    /\ UNCHANGED <<unitVars, dicts, embedder, stats, db_sources, db_chunks, db_logs, run, st>>

\* Step 3, chunks = self.chunker.chunk_text(content, str(source_id)); no chunk
\* returns 0
ChunkContent ==
    /\ pc = "chunk"
    /\ LET chunks == chunk_text(Content(fr.source_data), fr.source_id)
       IN  IF chunks = <<>>
           THEN /\ fr' = [fr EXCEPT !.ret = Returned(0)]
                /\ pc' = "return_source"
           ELSE /\ fr' = [fr EXCEPT !.chunks = chunks, !.chunk_idx = 1]
                /\ pc' = "tag"
    /\ obs' = [obs EXCEPT !.step = "chunk", !.segmented = TRUE]
    /\ UNCHANGED <<unitVars, dicts, embedder, stats, db_sources, db_chunks, db_logs, run, st>>

\* the chunk with the results of tag_chunk and extract_entities; the tag
\* result and the entities are not looked into by the controller
Tagged(chunk) ==
    Put(Put(Put(Put(chunk, "tags", "tags"), "entities", "entities"),
            "sentiment", "sentiment"), "leadership_polarity", "leadership_polarity")

\* TagChunk with break in the place of continue
TagChunk_Break ==
    /\ pc = "tag"
    /\ fr.chunk_idx <= Len(fr.chunks)
    /\ \/ /\ fr' = [fr EXCEPT !.tagged_chunks = Append(@, Tagged(fr.chunks[fr.chunk_idx])),
                              !.chunk_idx = @ + 1]
          /\ obs' = [obs EXCEPT !.step = "tag", !.tag_calls = Append(@, fr.chunk_idx)]
          /\ stats' = stats
       \/ /\ fr' = [fr EXCEPT !.chunk_idx = Len(fr.chunks) + 1]
          /\ obs' = [obs EXCEPT !.step = "tag", !.tag_calls = Append(@, fr.chunk_idx),
                                !.raised = @ \cup {fr.chunk_idx}]
          /\ stats' = [stats EXCEPT !.failed_chunks = @ + 1]
    /\ UNCHANGED <<unitVars, dicts, pc, embedder, db_sources, db_chunks, db_logs, run, st>>

\* Step 4, one turn of the loop: the chunk is tagged and appended, or the
\* tagging raises, which counts a failed chunk and goes on with the next one
TagChunk ==
    /\ pc = "tag"
    /\ fr.chunk_idx <= Len(fr.chunks)
    /\ \/ /\ fr' = [fr EXCEPT !.tagged_chunks = Append(@, Tagged(fr.chunks[fr.chunk_idx])),
                              !.chunk_idx = @ + 1]
          /\ obs' = [obs EXCEPT !.step = "tag", !.tag_calls = Append(@, fr.chunk_idx)]
          /\ stats' = stats
       \/ /\ fr' = [fr EXCEPT !.chunk_idx = @ + 1]
          /\ obs' = [obs EXCEPT !.step = "tag", !.tag_calls = Append(@, fr.chunk_idx),
                                !.raised = @ \cup {fr.chunk_idx}]
          /\ stats' = [stats EXCEPT !.failed_chunks = @ + 1]
    /\ UNCHANGED <<unitVars, dicts, pc, embedder, db_sources, db_chunks, db_logs, run, st>>

\* AfterTagging leaving the loop after any chunk but the first
AfterTagging_LeaveLoopEarly ==
    /\ pc = "tag"
    /\ fr.chunk_idx > 1
    /\ IF fr.tagged_chunks = <<>>
       THEN /\ fr' = [fr EXCEPT !.ret = Returned(0)]
            /\ pc' = "return_source"
       ELSE /\ fr' = fr
            /\ pc' = IF embedder THEN "embed" ELSE "save_chunks"
    /\ obs' = [obs EXCEPT !.step = "tagged"]
    /\ UNCHANGED <<unitVars, dicts, embedder, stats, db_sources, db_chunks, db_logs, run, st>>

\* AfterTagging without the check of an empty tagged_chunks
AfterTagging_NoEmptyCheck ==
    /\ pc = "tag"
    /\ fr.chunk_idx > Len(fr.chunks)
    /\ fr' = fr
    /\ pc' = IF embedder THEN "embed" ELSE "save_chunks"
    /\ obs' = [obs EXCEPT !.step = "tagged"]
    /\ UNCHANGED <<unitVars, dicts, embedder, stats, db_sources, db_chunks, db_logs, run, st>>

\* after the loop: no tagged chunk returns 0; Step 5 is skipped without embedder
AfterTagging ==
    /\ pc = "tag"
    /\ fr.chunk_idx > Len(fr.chunks)
    /\ IF fr.tagged_chunks = <<>>
       THEN /\ fr' = [fr EXCEPT !.ret = Returned(0)]
            /\ pc' = "return_source"
       ELSE /\ fr' = fr
            /\ pc' = IF embedder THEN "embed" ELSE "save_chunks"
    /\ obs' = [obs EXCEPT !.step = "tagged"]
    /\ UNCHANGED <<unitVars, dicts, embedder, stats, db_sources, db_chunks, db_logs, run, st>>

\* Embed without the try around the batch: its exception reaches the except
\* clause of _process_single_source
Embed_Uncaught ==
    /\ pc = "embed"
    /\ \/ /\ \E failing \in SUBSET (1..Len(fr.tagged_chunks)) :
                LET embedded == embed_chunks_batch(fr.tagged_chunks, failing)
                IN  /\ fr' = [fr EXCEPT !.tagged_chunks = embedded]
                    /\ stats' = [stats EXCEPT !.total_embeddings = @ + EmbeddingsCount(embedded)]
                    /\ obs' = [obs EXCEPT !.step = "embed", !.embed_calls = @ + 1]
          /\ pc' = "save_chunks"
       \/ /\ fr' = [fr EXCEPT !.e = "embed_chunks_batch failed"]
          /\ stats' = stats
          /\ obs' = [obs EXCEPT !.step = "embed", !.embed_calls = @ + 1,
                                !.embed_raised = TRUE]
          /\ pc' = "except_source"
    /\ UNCHANGED <<unitVars, dicts, embedder, db_sources, db_chunks, db_logs, run, st>>

\* Step 5: tagged_chunks = self.embedder.embed_chunks_batch(tagged_chunks) and the
\* count of the embeddings, or an exception of the batch, caught and logged
Embed ==
    /\ pc = "embed"
    /\ \/ \E failing \in SUBSET (1..Len(fr.tagged_chunks)) :
             LET embedded == embed_chunks_batch(fr.tagged_chunks, failing)
             IN  /\ fr' = [fr EXCEPT !.tagged_chunks = embedded]
                 /\ stats' = [stats EXCEPT !.total_embeddings = @ + EmbeddingsCount(embedded)]
                 /\ obs' = [obs EXCEPT !.step = "embed", !.embed_calls = @ + 1]
       \/ /\ fr' = fr
          /\ stats' = stats
          /\ obs' = [obs EXCEPT !.step = "embed", !.embed_calls = @ + 1,
                                !.embed_raised = TRUE]
    /\ pc' = "save_chunks"
    /\ UNCHANGED <<unitVars, dicts, embedder, db_sources, db_chunks, db_logs, run, st>>

\* Step 6: saved_count = self.db_ops.save_chunks(tagged_chunks)
SaveChunks ==
    /\ pc = "save_chunks"
    /\ \E db_ok \in BOOLEAN :
          LET r == save_chunks(fr.tagged_chunks, db_chunks, db_ok)
          IN  /\ db_chunks' = r.rows
              /\ fr' = [fr EXCEPT !.saved_count = r.count]
              /\ stats' = [stats EXCEPT !.total_chunks = @ + r.count]
    /\ obs' = [obs EXCEPT !.step = "save_chunks",
                          !.save_calls = Append(@, fr.tagged_chunks)]
    /\ pc' = "log_success"
    /\ UNCHANGED <<unitVars, dicts, embedder, db_sources, db_logs, run, st>>

\* Step 7: log_scraping(status="success"), then the log line that slices
\* source_data['title'], then return saved_count
LogSuccess ==
    /\ pc = "log_success"
    /\ \E db_ok \in BOOLEAN :
          db_logs' = log_scraping(fr.source_data["source_url"], st.scraper_type,
                                  "success", fr.saved_count, None, db_logs, db_ok)
    /\ obs' = [obs EXCEPT !.step = "log_success",
                          !.log_calls = Append(@, [status |-> "success",
                                                   items_scraped |-> fr.saved_count,
                                                   error_message |-> None]),
                          !.failed_step = IF "title" \in DOMAIN fr.source_data
                                          THEN @ ELSE "title"]
    /\ IF "title" \in DOMAIN fr.source_data
       THEN /\ fr' = [fr EXCEPT !.ret = Returned(fr.saved_count)]
            /\ pc' = "return_source"
       ELSE /\ fr' = [fr EXCEPT !.e = "'title'"]
            /\ pc' = "except_source"
    /\ UNCHANGED <<unitVars, dicts, embedder, stats, db_sources, db_chunks, run, st>>

\* except Exception as e: failed_sources += 1, log_scraping(status="failed"),
\* return None
ExceptSource ==
    /\ pc = "except_source"
    /\ stats' = [stats EXCEPT !.failed_sources = @ + 1]
    /\ \E db_ok \in BOOLEAN :
          db_logs' = log_scraping(IF "source_url" \in DOMAIN fr.source_data
                                  THEN fr.source_data["source_url"] ELSE "unknown",
                                  st.scraper_type, "failed", 0, fr.e, db_logs, db_ok)
    /\ obs' = [obs EXCEPT !.step = "except",
                          !.log_calls = Append(@, [status |-> "failed",
                                                   items_scraped |-> 0,
                                                   error_message |-> fr.e])]
    /\ fr' = [fr EXCEPT !.ret = ReturnedNone]
    /\ pc' = "return_source"
    /\ UNCHANGED <<unitVars, dicts, embedder, db_sources, db_chunks, run, st>>

Next ==
    \/ RunFullPipeline
    \/ SkipUnknownType
    \/ ProcessScraperType
    \/ Scrape
    \/ CallProcessSingleSource
    \/ SourcesDone
    \/ FinallyScraper
    \/ Normalize
    \/ SaveSource
    \/ CheckContent
    \/ ChunkContent
    \/ TagChunk
    \/ AfterTagging
    \/ Embed
    \/ SaveChunks
    \/ LogSuccess
    \/ ExceptSource
    \/ ReturnToLoop
    \/ PrintFinalReport

Spec == Init /\ [][Next]_vars

\* the same orchestrator fed by scrapers that return malformed dicts too
AnyDictSpec == InitAnyDict /\ [][Next]_vars

\* the statements other than the calls of normalize_source and chunk_text
OtherStatements ==
    \/ RunFullPipeline
    \/ SkipUnknownType
    \/ ProcessScraperType
    \/ Scrape
    \/ CallProcessSingleSource
    \/ SourcesDone
    \/ FinallyScraper
    \/ SaveSource
    \/ CheckContent
    \/ TagChunk
    \/ AfterTagging
    \/ Embed
    \/ SaveChunks
    \/ LogSuccess
    \/ ExceptSource
    \/ ReturnToLoop
    \/ PrintFinalReport

\* One thread executes the orchestrator, and it runs on as long as it has a
\* statement to execute.  Normalize is enabled exactly when pc = "normalize"
\* and ChunkContent exactly when pc = "chunk", and every step of either leaves
\* its location, so their weak fairness is that control does not stay there.
FairSpec ==
    /\ Spec
    /\ WF_vars(OtherStatements)
    /\ []<>(pc \notin {"normalize", "chunk"})

(***************************************************************************)
(* run_full_pipeline called again on the orchestrator of a finished run.   *)
(***************************************************************************)
\* run_full_pipeline(scraper_types, limit_per_scraper) once more: self.stats is
\* assigned in __init__ only, and the scrapers return MaxSources sources over
\* the runs together
RunFullPipelineAgain ==
    /\ pc = "done"
    /\ \E args \in RunArguments :
          run' = [scraper_types |-> args.scraper_types,
                  limit_per_scraper |-> args.limit_per_scraper, i |-> 1,
                  attempted |-> <<>>, handled |-> run.handled,
                  chunks0 |-> Len(db_chunks)]
    /\ pc' = "for_scraper_type"
    /\ UNCHANGED <<unitVars, dicts, embedder, stats, db_sources, db_chunks, db_logs, st,
                   fr, obs>>

NextRerun ==
    \/ Next
    \/ RunFullPipelineAgain

RerunSpec == Init /\ [][NextRerun]_vars

(***************************************************************************)
(* DatabaseOperations called on its own: a client calls save_source,       *)
(* save_chunks and log_scraping in any order on one session, which may     *)
(* fail during any call.                                                   *)
(***************************************************************************)
\* the number of calls the client makes
MaxCalls == 3

\* the dicts the client saves: normalized ones, and one without title
SavedDicts ==
    {normalize_source(d) :
        d \in {sd \in SourceDicts : "raw_content" \notin DOMAIN sd} \cup MalformedDicts}
    \cup {[source_url |-> "u1", title |-> Title]}

\* the chunks of LongText for a source, tagged
TaggedChunksOf(source_id) ==
    LET chunks == chunk_text(clean_text(LongText), source_id)
    IN  [i \in 1..Len(chunks) |-> Tagged(chunks[i])]

\* the lists of chunks the client saves: none, tagged ones, embedded ones
SavedChunkLists ==
    {<<>>, TaggedChunksOf("s1"), embed_chunks_batch(TaggedChunksOf("s1"), {2})}

\* what is kept of a call: the operation, its argument, whether the session
\* worked, the tables before it, and what came back
CallRecord(op, arg, db_ok, ret, raised) ==
    [op |-> op, arg |-> arg, db_ok |-> db_ok, ret |-> ret, raised |-> raised,
     sources0 |-> db_sources, chunks0 |-> db_chunks, logs0 |-> db_logs]

CallSaveSource ==
    /\ Len(calls) < MaxCalls
    /\ \E source_data \in SavedDicts, db_ok \in BOOLEAN :
          LET r == save_source(source_data, db_sources, db_ok)
          IN  /\ db_sources' = r.rows
              /\ calls' = Append(calls, CallRecord("save_source", source_data, db_ok,
                                                  <<r.id>>, r.raised))
    /\ UNCHANGED <<pc, embedder, stats, db_chunks, db_logs, run, st, fr, obs, dicts, tag, seg, batch, emb, proc, conf, crawl>>

CallSaveChunks ==
    /\ Len(calls) < MaxCalls
    /\ \E chunks \in SavedChunkLists, db_ok \in BOOLEAN :
          LET r == save_chunks(chunks, db_chunks, db_ok)
          IN  /\ db_chunks' = r.rows
              /\ calls' = Append(calls, CallRecord("save_chunks", chunks, db_ok,
                                                  <<r.count>>, r.raised))
    /\ UNCHANGED <<pc, embedder, stats, db_sources, db_logs, run, st, fr, obs, dicts, tag, seg, batch, emb, proc, conf, crawl>>

CallLogScraping ==
    /\ Len(calls) < MaxCalls
    /\ \E status \in {"success", "failed"}, db_ok \in BOOLEAN :
          /\ db_logs' = log_scraping("u1", "media", status, 0, None, db_logs, db_ok)
          /\ calls' = Append(calls, CallRecord("log_scraping", status, db_ok, <<>>, FALSE))
    /\ UNCHANGED <<pc, embedder, stats, db_sources, db_chunks, run, st, fr, obs, dicts, tag, seg, batch, emb, proc, conf, crawl>>

NextDb ==
    \/ CallSaveSource
    \/ CallSaveChunks
    \/ CallLogScraping

DbSpec == Init /\ [][NextDb]_vars

(***************************************************************************)
(* Tagger.  JSON values carry their kind; a number is a fraction in lowest *)
(* terms.  A response text is a sequence of whitespace characters and of   *)
(* tokens: the fence ```, the word json, and the names of JSON documents   *)
(* (any other token is text json.loads rejects).  An operation that may    *)
(* raise gives Raise, or Return(v).                                        *)
(***************************************************************************)
\* the token of a code fence (three backquotes)
Fence == "fence"

RECURSIVE Gcd(_, _)
Gcd(a, b) == IF b = 0 THEN a ELSE Gcd(b, a % b)

Num(n, d) == [kind |-> "number", num |-> n \div Gcd(n, d), den |-> d \div Gcd(n, d)]
Str(chars) == [kind |-> "string", chars |-> chars]
List(items) == [kind |-> "list", items |-> items]
Obj(fields) == [kind |-> "object", fields |-> fields]
Null == [kind |-> "null"]
\* dict()
EmptyFields == [k \in {} |-> Null]

Raise == [exc |-> TRUE]
Return(v) == [exc |-> FALSE, value |-> v]

\* bool(v)
Truthy(v) ==
    CASE v.kind = "number" -> v.num # 0
      [] v.kind = "string" -> v.chars # ""
      [] v.kind = "list"   -> v.items # <<>>
      [] v.kind = "object" -> DOMAIN v.fields # {}
      [] v.kind = "null"   -> FALSE

_get_default_tags ==
    Obj([domain              |-> Str("governance"),
         issues              |-> List(<<>>),
         cohorts             |-> List(<<>>),
         actors              |-> List(<<>>),
         leadership_polarity |-> Obj([polarity  |-> Str("neutral"),
                                      score     |-> Num(5, 10),
                                      reasoning |-> Str("Unable to determine")]),
         frame               |-> Str("service_delivery"),
         sentiment           |-> Obj([polarity |-> Str("neutral"),
                                      score    |-> Num(5, 10)]),
         actionability       |-> List(<<>>),
         confidence          |-> Num(3, 10)])

\* the documents the model may answer with, by the token that names them
JsonDocs ==
    [doc \in {"null", "7", "text", "[]", "{}", "full", "scores", "no_score",
              "polarity_text", "score_text", "tags_number", "issues"} |->
        CASE doc = "null" -> Null
          [] doc = "7"    -> Num(7, 1)
          [] doc = "text" -> Str("text")
          [] doc = "[]"   -> List(<<>>)
          [] doc = "{}"   -> Obj(EmptyFields)
          [] doc = "full" ->
                Obj([domain              |-> Str("political"),
                     issues              |-> List(<<Str("water_supply")>>),
                     cohorts             |-> List(<<Str("farmers")>>),
                     leadership_polarity |-> Obj([polarity |-> Str("positive"),
                                                  score    |-> Num(9, 10)]),
                     sentiment           |-> Obj([polarity |-> Str("negative"),
                                                  score    |-> Num(2, 10)]),
                     tags                |-> List(<<Str("water_supply")>>)])
          [] doc = "scores" ->
                Obj([leadership_polarity |-> Obj([score |-> Num(3, 10)]),
                     sentiment           |-> Obj([score |-> Num(3, 10)])])
          [] doc = "no_score" ->
                Obj([sentiment |-> Obj([polarity |-> Str("neutral")]),
                     issues    |-> List(<<>>)])
          [] doc = "polarity_text" ->
                Obj([leadership_polarity |-> Str("positive")])
          [] doc = "score_text" ->
                Obj([sentiment |-> Obj([score |-> Str("high")])])
          [] doc = "tags_number" ->
                Obj([tags |-> Num(3, 1), issues |-> List(<<Str("housing")>>)])
          [] doc = "issues" ->
                Obj([issues |-> List(<<Str("housing")>>)])]

\* json.loads(text): whitespace around one document; JSONDecodeError otherwise
json_loads(text) ==
    IF Len(strip(text)) = 1 /\ strip(text)[1] \in DOMAIN JsonDocs
    THEN Return(JsonDocs[strip(text)[1]])
    ELSE Raise

\* text.split('```')[1], for a text that starts with the fence
RECURSIVE UpToFence(_)
UpToFence(text) ==
    IF text = <<>> \/ Head(text) = Fence THEN <<>>
    ELSE <<Head(text)>> \o UpToFence(Tail(text))

\* the text _parse_llm_response hands to json.loads
Unfenced(response_text) ==
    LET stripped == strip(response_text)
        part     == UpToFence(Tail(stripped))
    IN  IF stripped # <<>> /\ Head(stripped) = Fence
        THEN (IF part # <<>> /\ Head(part) = "json" THEN Tail(part) ELSE part)
        ELSE stripped

_parse_llm_response(response_text) ==
    IF json_loads(Unfenced(response_text)).exc
    THEN _get_default_tags
    ELSE json_loads(Unfenced(response_text)).value

\* key in tags_data, for the keys of the tag result: membership of a key for
\* a dict, of an element for a list, of a substring for a str (no str here
\* holds a key); TypeError for a number and for None
HasKey(tags_data, key) ==
    CASE tags_data.kind = "object" -> Return(key \in DOMAIN tags_data.fields)
      [] tags_data.kind = "list"   ->
            Return(\E i \in 1..Len(tags_data.items) : tags_data.items[i] = Str(key))
      [] tags_data.kind = "string" -> Return(FALSE)
      [] OTHER                     -> Raise

\* d.get(key, default): AttributeError unless d is a dict
Get(d, key, default) ==
    IF d.kind # "object" THEN Raise
    ELSE IF key \in DOMAIN d.fields THEN Return(d.fields[key]) ELSE Return(default)

\* scores.append(tags_data[key].get('score', 0.5)) if key in tags_data
ScoreOf(tags_data, key) ==
    IF HasKey(tags_data, key).exc THEN Raise
    ELSE IF ~HasKey(tags_data, key).value THEN Return(<<>>)
    ELSE IF tags_data.kind # "object" THEN Raise
    ELSE IF Get(tags_data.fields[key], "score", Num(5, 10)).exc THEN Raise
    ELSE Return(<<Get(tags_data.fields[key], "score", Num(5, 10)).value>>)

\* scores.append(0.8) whether or not the list is empty
SpecificOf_AlwaysCounted(tags_data, key) ==
    IF Get(tags_data, key, Null).exc THEN Raise
    ELSE Return(<<Num(8, 10)>>)

\* scores.append(0.8) if tags_data.get(key)
SpecificOf(tags_data, key) ==
    IF Get(tags_data, key, Null).exc THEN Raise
    ELSE IF Truthy(Get(tags_data, key, Null).value) THEN Return(<<Num(8, 10)>>)
    ELSE Return(<<>>)

\* sum(scores) / len(scores): TypeError unless every score is a number
RECURSIVE SumOver(_, _)
SumOver(scores, den) ==
    IF scores = <<>> THEN 0
    ELSE Head(scores).num * (den \div Head(scores).den) + SumOver(Tail(scores), den)

RECURSIVE Dens(_)
Dens(scores) == IF scores = <<>> THEN 1 ELSE Head(scores).den * Dens(Tail(scores))

Mean(scores) ==
    IF \E i \in 1..Len(scores) : scores[i].kind # "number" THEN Raise
    ELSE Return(Num(SumOver(scores, Dens(scores)), Dens(scores) * Len(scores)))

_calculate_confidence(tags_data) ==
    LET lp == ScoreOf(tags_data, "leadership_polarity")
        se == ScoreOf(tags_data, "sentiment")
        is == SpecificOf(tags_data, "issues")
        co == SpecificOf(tags_data, "cohorts")
    IN  IF lp.exc \/ se.exc \/ is.exc \/ co.exc THEN Raise
        ELSE LET scores == lp.value \o se.value \o is.value \o co.value
             IN  IF scores = <<>> THEN Return(Num(5, 10)) ELSE Mean(scores)

\* len(tags_data.get('tags', [])) of the debug line: TypeError for a value
\* without length
TagsLen(tags_data) ==
    IF Get(tags_data, "tags", List(<<>>)).exc THEN Raise
    ELSE IF Get(tags_data, "tags", List(<<>>)).value.kind \in {"number", "null"} THEN Raise
    ELSE Return(0)

\* the outcomes of self.model.generate_content(prompt) and response.text
ModelRaises == [raises |-> TRUE]
ModelAnswers(text) == [raises |-> FALSE, text |-> text]

\* the try block of tag_chunk
TagChunkBody(response) ==
    IF response.raises THEN Raise
    ELSE LET tags_data == _parse_llm_response(response.text)
         IN  IF _calculate_confidence(tags_data).exc THEN Raise
             ELSE IF tags_data.kind # "object" THEN Raise
             ELSE IF TagsLen(tags_data).exc THEN Raise
             ELSE Return(Obj(Put(tags_data.fields, "confidence",
                                 _calculate_confidence(tags_data).value)))

\* tag_chunk with JSONDecodeError in the place of Exception in its except
\* clause: every other exception leaves it
tag_chunk_NarrowExcept(response) ==
    IF TagChunkBody(response).exc
    THEN [raised |-> TRUE]
    ELSE [raised |-> FALSE, value |-> TagChunkBody(response).value]

\* tag_chunk: what it returns, and raised: whether an exception leaves it
tag_chunk(response) ==
    IF TagChunkBody(response).exc
    THEN [raised |-> FALSE, value |-> _get_default_tags]
    ELSE [raised |-> FALSE, value |-> TagChunkBody(response).value]

\* the texts the model may answer with: a document, nothing, or other text,
\* plain or fenced
ResponseBodies ==
    {<<doc>> : doc \in DOMAIN JsonDocs} \cup {<<>>, <<"Sorry">>, <<"{}", "{}">>}

ResponseTexts ==
    UNION {{body,
            <<" ">> \o body \o <<"\n">>,
            <<Fence, "json", "\n">> \o body \o <<"\n", Fence>>,
            <<Fence, "\n">> \o body \o <<"\n", Fence, "\n">>,
            <<"\n", Fence, "json">> \o body} : body \in ResponseBodies}

\* response = self.model.generate_content(prompt); response.text
GenerateContent ==
    /\ tag.at = "idle"
    /\ \/ tag' = [at |-> "answered", response |-> ModelRaises]
       \/ \E text \in ResponseTexts :
             tag' = [at |-> "answered", response |-> ModelAnswers(text)]
    /\ UNCHANGED <<pc, embedder, stats, db_sources, db_chunks, db_logs, run, st, fr, obs,
                   dicts, calls, seg, batch, emb, proc, conf, crawl>>

\* the rest of tag_chunk
ReturnTags ==
    /\ tag.at = "answered"
    /\ tag' = [at |-> "returned", response |-> tag.response,
               ret |-> tag_chunk(tag.response)]
    /\ UNCHANGED <<pc, embedder, stats, db_sources, db_chunks, db_logs, run, st, fr, obs,
                   dicts, calls, seg, batch, emb, proc, conf, crawl>>

NextTagger ==
    \/ GenerateContent
    \/ ReturnTags

TaggerSpec == Init /\ [][NextTagger]_vars

(***************************************************************************)
(* Chunker.chunk_text called on its own, on texts of up to MaxSentences    *)
(* sentences of 1, 2, 3 and chunk_size + 2 words and of up to MaxWords     *)
(* words in all.  The words have one letter, but for the first word of a   *)
(* text that has the 50 characters chunk_text asks for.                    *)
(***************************************************************************)
MaxSentences == 6
MaxWords == 12

\* a word long enough to make a text of 5 words one of 50 characters
LongWord == [i \in 1..39 |-> "a"]

\* a sentence of n words after its first word
SentenceOf(first, n) == first \o [i \in 1..2 * (n - 1) |-> IF i % 2 = 1 THEN " " ELSE "a"]

SentenceSizes == {1, 2, 3, chunk_size + 2}

RECURSIVE SumSizes(_)
SumSizes(sizes) == IF sizes = <<>> THEN 0 ELSE Head(sizes) + SumSizes(Tail(sizes))

\* the sentences of the given sizes, each followed by the terminator
RECURSIVE Terminated(_, _, _)
Terminated(first, sizes, terminator) ==
    IF sizes = <<>> THEN <<>>
    ELSE SentenceOf(first, Head(sizes)) \o terminator
         \o Terminated(<<"a">>, Tail(sizes), terminator)

PlainTexts ==
    {Terminated(first, sizes, terminator) :
        first \in {<<"a">>, LongWord},
        sizes \in {ss \in UNION {[1..n -> SentenceSizes] : n \in 1..MaxSentences} :
                      SumSizes(ss) <= MaxWords},
        terminator \in {<<".", " ">>, <<"?", "!">>}}

\* 25 characters of whitespace
Pad == [i \in 1..25 |-> IF i % 2 = 0 THEN " " ELSE "\n"]

ChunkerTexts ==
    PlainTexts
    \cup {Pad \o t \o Pad : t \in {p \in PlainTexts : Len(p) < MinContentLen - 25}}
    \cup {<<>>, NoneText, Pad, Pad \o Pad, [i \in 1..MinContentLen |-> "!"]}

\* a client calls chunk_text(text, source_id)
CallChunkText ==
    /\ seg.at = "idle"
    /\ \E text \in ChunkerTexts :
          seg' = [at |-> "called", text |-> text, source_id |-> "s1"]
    /\ UNCHANGED <<pc, embedder, stats, db_sources, db_chunks, db_logs, run, st, fr, obs,
                   dicts, calls, tag, batch, emb, proc, conf, crawl>>

ReturnChunks ==
    /\ seg.at = "called"
    /\ seg' = [at |-> "returned", text |-> seg.text, source_id |-> seg.source_id,
               chunks |-> chunk_text(seg.text, seg.source_id)]
    /\ UNCHANGED <<pc, embedder, stats, db_sources, db_chunks, db_logs, run, st, fr, obs,
                   dicts, calls, tag, batch, emb, proc, conf, crawl>>

NextChunker ==
    \/ CallChunkText
    \/ ReturnChunks

ChunkerSpec == Init /\ [][NextChunker]_vars

(***************************************************************************)
(* Embedder.generate_batch_embeddings called on its own, on up to MaxTexts *)
(* texts.  The loop is followed group by group; of the texts only their    *)
(* number matters to it, and of the embeddings how many were appended.     *)
(***************************************************************************)
MaxTexts == 250

batch_size == 100
\* seconds between batches
rate_limit_delay == 1

Min(a, b) == IF a < b THEN a ELSE b

\* what the loop did, in order: a group of texts embedded, or a sleep
Embedded(size) == [op |-> "embed", n |-> size]
Slept(seconds) == [op |-> "sleep", n |-> seconds]

\* a client calls generate_batch_embeddings(texts); range(0, len(texts),
\* self.batch_size) starts at 0
CallGenerateBatchEmbeddings ==
    /\ batch.at = "idle"
    /\ \E len_texts \in 0..MaxTexts :
          batch' = [at |-> "for", len_texts |-> len_texts, i |-> 0, embeddings |-> 0,
                    events |-> <<>>]
    /\ UNCHANGED <<pc, embedder, stats, db_sources, db_chunks, db_logs, run, st, fr, obs,
                   dicts, calls, tag, seg, emb, proc, conf, crawl>>

\* batch = texts[i:i + self.batch_size] and the loop over its texts
EmbedGroup ==
    /\ batch.at = "for"
    /\ batch.i < batch.len_texts
    /\ LET size == Min(batch.i + batch_size, batch.len_texts) - batch.i
       IN  batch' = [batch EXCEPT !.at = "rate_limit",
                                  !.embeddings = @ + size,
                                  !.events = Append(@, Embedded(size))]
    /\ UNCHANGED <<pc, embedder, stats, db_sources, db_chunks, db_logs, run, st, fr, obs,
                   dicts, calls, tag, seg, emb, proc, conf, crawl>>

\* the rate limiting always on: a sleep after every group
MoreTexts_Always(i, len_texts) == TRUE

\* if i + self.batch_size < len(texts)
MoreTexts(i, len_texts) == i + batch_size < len_texts

\* time.sleep(self.rate_limit_delay), then the next i of the range
Sleep ==
    /\ batch.at = "rate_limit"
    /\ MoreTexts(batch.i, batch.len_texts)
    /\ batch' = [batch EXCEPT !.at = "for",
                              !.i = @ + batch_size,
                              !.events = Append(@, Slept(rate_limit_delay))]
    /\ UNCHANGED <<pc, embedder, stats, db_sources, db_chunks, db_logs, run, st, fr, obs,
                   dicts, calls, tag, seg, emb, proc, conf, crawl>>

\* no sleep, then the next i of the range
NoSleep ==
    /\ batch.at = "rate_limit"
    /\ ~MoreTexts(batch.i, batch.len_texts)
    /\ batch' = [batch EXCEPT !.at = "for", !.i = @ + batch_size]
    /\ UNCHANGED <<pc, embedder, stats, db_sources, db_chunks, db_logs, run, st, fr, obs,
                   dicts, calls, tag, seg, emb, proc, conf, crawl>>

\* the range is exhausted: return embeddings
ReturnEmbeddings ==
    /\ batch.at = "for"
    /\ batch.i >= batch.len_texts
    /\ batch' = [batch EXCEPT !.at = "returned"]
    /\ UNCHANGED <<pc, embedder, stats, db_sources, db_chunks, db_logs, run, st, fr, obs,
                   dicts, calls, tag, seg, emb, proc, conf, crawl>>

NextBatch ==
    \/ CallGenerateBatchEmbeddings
    \/ EmbedGroup
    \/ Sleep
    \/ NoSleep
    \/ ReturnEmbeddings

BatchSpec == Init /\ [][NextBatch]_vars

(***************************************************************************)
(* Embedder.embed_chunks_batch called on its own, on up to MaxChunks       *)
(* chunks of four texts: two that can be embedded, one of fewer than       *)
(* MinEmbedLen characters, and one that has them only with its whitespace. *)
(***************************************************************************)
MaxChunks == 3

EmbedTexts ==
    {Sentence, Word \o Word, Word, <<" ", " ", " ">> \o Word}

\* the chunks of the given texts, as chunk_text numbers them
ChunksOf(texts) == [i \in 1..Len(texts) |-> MakeChunk("s1", i - 1, <<texts[i]>>)]

\* a client calls embed_chunks_batch(chunks); failing are the positions whose
\* call of genai.embed_content raises
CallEmbedChunksBatch ==
    /\ emb.at = "idle"
    /\ \E n \in 0..MaxChunks :
          \E texts \in [1..n -> EmbedTexts], failing \in SUBSET (1..n) :
              emb' = [at |-> "called", chunks |-> ChunksOf(texts), failing |-> failing]
    /\ UNCHANGED <<pc, embedder, stats, db_sources, db_chunks, db_logs, run, st, fr, obs,
                   dicts, calls, tag, seg, batch, proc, conf, crawl>>

ReturnEmbedded ==
    /\ emb.at = "called"
    /\ emb' = [at |-> "returned", chunks |-> emb.chunks, failing |-> emb.failing,
               ret |-> embed_chunks_batch(emb.chunks, emb.failing)]
    /\ UNCHANGED <<pc, embedder, stats, db_sources, db_chunks, db_logs, run, st, fr, obs,
                   dicts, calls, tag, seg, batch, proc, conf, crawl>>

NextEmbed ==
    \/ CallEmbedChunksBatch
    \/ ReturnEmbedded

EmbedSpec == Init /\ [][NextEmbed]_vars

(***************************************************************************)
(* main: the orchestrator is constructed, the pipeline runs inside the try *)
(* statement, and the finally clause closes the orchestrator.  A           *)
(* KeyboardInterrupt may arrive at any statement of the try block; it is   *)
(* not an Exception, so no except clause of the orchestrator catches it.   *)
(* Of run_specific_url only the way it ends is followed.                   *)
(***************************************************************************)
\* the number of parts of url.split('/') for the urls of --url: a word, a
\* path of two parts, and a url with scheme and host
UrlParts == {1, 2, 3}

\* orchestrator = DataScrapingOrchestrator(...), and the try block is entered
Main ==
    /\ proc.at = "idle"
    /\ pc = "main"
    /\ proc' = [at |-> "try", closes |-> 0, interrupted |-> FALSE, during |-> None,
                raised |-> FALSE]
    /\ UNCHANGED <<pc, embedder, stats, db_sources, db_chunks, db_logs, run, st, fr, obs,
                   dicts, calls, tag, seg, batch, emb, conf, crawl>>

\* the statements of run_full_pipeline, inside the try block of main
PipelineStep == proc.at = "try" /\ Next

\* orchestrator.run_specific_url(args.url, args.url_type): url.split('/')[2]
\* raises IndexError for a url of two parts; otherwise the call returns, for
\* an unsupported type, after a failed fetch, or after the source
RunSpecificUrl ==
    /\ proc.at = "try"
    /\ pc = "main"
    /\ \E parts \in UrlParts :
          proc' = [proc EXCEPT !.at = IF parts = 2 THEN "except_Exception" ELSE "finally",
                               !.raised = (parts = 2)]
    /\ pc' = "left"
    /\ UNCHANGED <<embedder, stats, db_sources, db_chunks, db_logs, run, st, fr, obs,
                   dicts, calls, tag, seg, batch, emb, conf, crawl>>

\* run_full_pipeline returns
ReturnToMain ==
    /\ proc.at = "try"
    /\ pc = "done"
    /\ proc' = [proc EXCEPT !.at = "finally"]
    /\ pc' = "left"
    /\ UNCHANGED <<embedder, stats, db_sources, db_chunks, db_logs, run, st, fr, obs,
                   dicts, calls, tag, seg, batch, emb, conf, crawl>>

\* the user interrupts: the frames of the orchestrator are left, through
\* the finally clause of _process_scraper_type, up to main
KeyboardInterrupt ==
    /\ proc.at = "try"
    /\ pc # "done"
    /\ proc' = [proc EXCEPT !.at = "except_KeyboardInterrupt", !.interrupted = TRUE,
                            !.during = pc]
    /\ pc' = "left"
    /\ st' = NoScraperFrame
    /\ fr' = NoFrame
    /\ obs' = NoObs
    /\ UNCHANGED <<embedder, stats, db_sources, db_chunks, db_logs, run,
                   dicts, calls, tag, seg, batch, emb, conf, crawl>>

\* except KeyboardInterrupt: a warning is logged
ExceptKeyboardInterrupt ==
    /\ proc.at = "except_KeyboardInterrupt"
    /\ proc' = [proc EXCEPT !.at = "finally"]
    /\ UNCHANGED <<pc, embedder, stats, db_sources, db_chunks, db_logs, run, st, fr, obs,
                   dicts, calls, tag, seg, batch, emb, conf, crawl>>

\* except Exception: the error and the traceback are logged
ExceptException ==
    /\ proc.at = "except_Exception"
    /\ proc' = [proc EXCEPT !.at = "finally"]
    /\ UNCHANGED <<pc, embedder, stats, db_sources, db_chunks, db_logs, run, st, fr, obs,
                   dicts, calls, tag, seg, batch, emb, conf, crawl>>

\* main with orchestrator.close() as the last statement of the try block
Finally_CloseInTry ==
    /\ proc.at = "finally"
    /\ proc' = [proc EXCEPT !.at = "exited",
                            !.closes = IF proc.interrupted THEN @ ELSE @ + 1]
    /\ UNCHANGED <<pc, embedder, stats, db_sources, db_chunks, db_logs, run, st, fr, obs,
                   dicts, calls, tag, seg, batch, emb, conf, crawl>>

\* finally: orchestrator.close(), and main returns
Finally ==
    /\ proc.at = "finally"
    /\ proc' = [proc EXCEPT !.at = "exited", !.closes = @ + 1]
    /\ UNCHANGED <<pc, embedder, stats, db_sources, db_chunks, db_logs, run, st, fr, obs,
                   dicts, calls, tag, seg, batch, emb, conf, crawl>>

NextMain ==
    \/ Main
    \/ PipelineStep
    \/ RunSpecificUrl
    \/ ReturnToMain
    \/ KeyboardInterrupt
    \/ ExceptKeyboardInterrupt
    \/ ExceptException
    \/ Finally

MainSpec == Init /\ [][NextMain]_vars

(***************************************************************************)
(* Tagger._calculate_confidence called on its own, on the tag objects a    *)
(* well-formed answer may hold: each polarity object absent, without score *)
(* or with a score, each of issues and cohorts absent, empty or not empty. *)
(***************************************************************************)
\* a key the object does not have
Absent == [kind |-> "absent"]

WithField(fields, key, v) == IF v = Absent THEN fields ELSE Put(fields, key, v)

PolarityValues ==
    {Absent, Obj(EmptyFields), Obj([polarity |-> Str("neutral")])}
    \cup {Obj([score |-> Num(tenths, 10)]) : tenths \in {0, 2, 5, 9, 10}}

ListValues == {Absent, List(<<>>), List(<<Str("water_supply")>>)}

TagObjects ==
    {Obj(WithField(WithField(WithField(WithField(EmptyFields,
            "leadership_polarity", lp), "sentiment", se), "issues", is), "cohorts", co)) :
        lp \in PolarityValues, se \in PolarityValues, is \in ListValues, co \in ListValues}

CallCalculateConfidence ==
    /\ conf.at = "idle"
    /\ \E tags_data \in TagObjects : conf' = [at |-> "called", tags_data |-> tags_data]
    /\ UNCHANGED <<pc, embedder, stats, db_sources, db_chunks, db_logs, run, st, fr, obs,
                   dicts, calls, tag, seg, batch, emb, proc, crawl>>

ReturnConfidence ==
    /\ conf.at = "called"
    /\ conf' = [at |-> "returned", tags_data |-> conf.tags_data,
                ret |-> _calculate_confidence(conf.tags_data)]
    /\ UNCHANGED <<pc, embedder, stats, db_sources, db_chunks, db_logs, run, st, fr, obs,
                   dicts, calls, tag, seg, batch, emb, proc, crawl>>

NextConfidence ==
    \/ CallCalculateConfidence
    \/ ReturnConfidence

ConfidenceSpec == Init /\ [][NextConfidence]_vars

(***************************************************************************)
(* MediaScraper.scrape_media_source over a site: its listing pages, the    *)
(* pagination links of each page and the articles each page lists          *)
(***************************************************************************)
\* the listing pages of the site; ConfigUrl is config["url"]
Pages == {"p1", "p2", "p3"}

ConfigUrl == "p1"

\* the most pagination links one listing page has
MaxLinks == 2

\* the most turns of the loop over pages_to_scrape that are followed
MaxFetches == 6

\* the lists of at most n resolved pagination links
RECURSIVE LinkLists(_)
LinkLists(n) ==
    IF n = 0 THEN {<<>>}
    ELSE LinkLists(n - 1) \cup
         {Append(l, p) : l \in {m \in LinkLists(n - 1) : Len(m) = n - 1}, p \in Pages}

\* the sites: the pagination links of every page, in the order of the page
Sites == [Pages -> LinkLists(MaxLinks)]

\* the URLs of the articles the listing pages show
ArticlesOf == [p \in Pages |-> IF p = "p1" THEN <<"a1", "a2">>
                               ELSE IF p = "p2" THEN <<"a2", "a3">>
                               ELSE <<>>]

\* extract_pagination_links(soup, base_url): the hrefs of the page's "next"
\* anchors, made absolute, in the order of the page
extract_pagination_links(links, page_url) == links[page_url]

\* for link in next_links: if link not in pages_to_scrape: append
RECURSIVE AppendNew(_, _)
AppendNew(pages_to_scrape, next_links) ==
    IF next_links = <<>> THEN pages_to_scrape
    ELSE AppendNew(IF \E i \in 1..Len(pages_to_scrape) :
                          pages_to_scrape[i] = Head(next_links)
                   THEN pages_to_scrape
                   ELSE Append(pages_to_scrape, Head(next_links)),
                   Tail(next_links))

\* the articles of the page that are not in visited_articles, in their order
NewArticles(page_url, visited_articles) ==
    SelectSeq(ArticlesOf[page_url], LAMBDA a : a \notin visited_articles)

\* scrape_media_source(source_name, config), up to the loop
CallScrapeMediaSource ==
    /\ crawl.at = "idle"
    /\ \E links \in Sites :
          crawl' = [at |-> "while", links |-> links,
                    pages_to_scrape |-> <<ConfigUrl>>, visited_articles |-> {},
                    sources |-> <<>>, fetched |-> <<>>]
    /\ UNCHANGED <<pc, embedder, stats, db_sources, db_chunks, db_logs, run, st, fr, obs,
                   dicts, calls, tag, seg, batch, emb, proc, conf>>

\* one turn of while pages_to_scrape: the page is popped and fetched; a page
\* that is not fetched is left; else its articles that were not visited are
\* visited, those that are fetched with content become sources, and the
\* pagination links that are not in pages_to_scrape are appended
ScrapePage ==
    /\ crawl.at = "while"
    /\ crawl.pages_to_scrape # <<>>
    /\ Len(crawl.fetched) < MaxFetches
    /\ LET page_url == Head(crawl.pages_to_scrape)
           rest     == Tail(crawl.pages_to_scrape)
           articles == NewArticles(page_url, crawl.visited_articles)
       IN  \/ crawl' = [crawl EXCEPT !.pages_to_scrape = rest,
                                     !.fetched = Append(@, page_url)]
           \/ \E scraped \in SUBSET {articles[i] : i \in 1..Len(articles)} :
                 crawl' = [crawl EXCEPT
                    !.pages_to_scrape =
                        AppendNew(rest, extract_pagination_links(crawl.links, page_url)),
                    !.visited_articles = @ \cup {articles[i] : i \in 1..Len(articles)},
                    !.sources = @ \o SelectSeq(articles, LAMBDA a : a \in scraped),
                    !.fetched = Append(@, page_url)]
    /\ UNCHANGED <<pc, embedder, stats, db_sources, db_chunks, db_logs, run, st, fr, obs,
                   dicts, calls, tag, seg, batch, emb, proc, conf>>

\* pages_to_scrape is empty: return sources
ReturnSources ==
    /\ crawl.at = "while"
    /\ crawl.pages_to_scrape = <<>>
    /\ crawl' = [crawl EXCEPT !.at = "returned"]
    /\ UNCHANGED <<pc, embedder, stats, db_sources, db_chunks, db_logs, run, st, fr, obs,
                   dicts, calls, tag, seg, batch, emb, proc, conf>>

NextCrawl ==
    \/ CallScrapeMediaSource
    \/ ScrapePage
    \/ ReturnSources

CrawlSpec == Init /\ [][NextCrawl]_vars

(***************************************************************************)
(* The claims.  A call of _process_single_source has done all it does when *)
(* pc = "return_source"; obs holds what it did, and the statistics and the *)
(* tables as they were when it was entered.                                *)
(***************************************************************************)
\* the tagged chunks Step 4 is to keep: those of chunks whose position is not
\* in raised, in their order
RECURSIVE KeptFrom(_, _, _)
KeptFrom(chunks, i, raised) ==
    IF i > Len(chunks) THEN <<>>
    ELSE (IF i \in raised THEN <<>> ELSE <<Tagged(chunks[i])>>)
         \o KeptFrom(chunks, i + 1, raised)

\* the positions 1..n in order
Positions(n) == [i \in 1..n |-> i]

\* the known scraper types among the requested ones, in order
KnownTypes(types) == SelectSeq(types, LAMBDA t : t \in Scrapers)

\* the seq values of the chunk rows of one source, in the order of the table
SeqsOf(rows, id) ==
    LET mine == SelectSeq(rows, LAMBDA r : r["source_id"] = id)
    IN  [i \in 1..Len(mine) |-> mine[i]["seq"]]

\* C1: every call of _process_single_source has written exactly one
\* scraping-log entry (one call of log_scraping) when it returns, whichever
\* way the processing ended.
C1_ExactlyOneLogEntry ==
    pc = "return_source" => Len(obs.log_calls) = 1

\* C2: a source whose source_url is already persisted is short-circuited: no
\* segmentation, no tagging, no embedding, and the chunk table is left as it
\* was.
C2_ExistingSourceShortCircuits ==
    (pc = "return_source" /\ obs.existed)
        => /\ ~obs.segmented
           /\ obs.tag_calls = <<>>
           /\ obs.embed_calls = 0
           /\ obs.save_calls = <<>>
           /\ db_chunks = obs.chunks0

\* C3: in the tagging loop an exception counts one failed chunk and drops
\* that chunk only: failed_chunks has grown by the number of chunks whose
\* tagging raised, every chunk has been attempted once and in order, and
\* save_chunks is handed exactly the chunks whose tagging did not raise, in
\* their original order.
C3_TaggingFailureDropsOnlyThatChunk ==
    /\ obs.segmented
          => stats.failed_chunks = obs.stats0.failed_chunks + Cardinality(obs.raised)
    /\ pc = "tag"
          => /\ obs.tag_calls = Positions(fr.chunk_idx - 1)
             /\ fr.tagged_chunks
                   = KeptFrom(SubSeq(fr.chunks, 1, fr.chunk_idx - 1), 1, obs.raised)
    /\ (obs.segmented /\ fr.chunks # <<>> /\ pc # "tag")
          => obs.tag_calls = Positions(Len(fr.chunks))
    /\ \A k \in 1..Len(obs.save_calls) :
          ChunkRows(obs.save_calls[k]) = KeptFrom(fr.chunks, 1, obs.raised)

C3_Witness ==
    /\ pc = "return_source"
    /\ obs.raised = {1}
    /\ Len(obs.save_calls) = 1
    /\ Len(obs.save_calls[1]) = 1
    /\ obs.save_calls[1][1]["seq"] = 1
    /\ stats.failed_chunks = 1

\* C4: a failure of step 1 (normalize_source) or of step 2 (save_source) ends
\* the source in Failed: failed_sources is incremented by one and one log
\* entry with status 'failed', carrying the exception text, is written.
C4_FailureOfStep1Or2IsFailed ==
    (pc = "return_source" /\ obs.failed_step \in {"normalize", "save_source"})
        => /\ stats.failed_sources = obs.stats0.failed_sources + 1
           /\ Len(obs.log_calls) = 1
           /\ obs.log_calls[1].status = "failed"
           /\ obs.log_calls[1].error_message # None

C6_MissingKeyIsFailed ==
    (pc = "return_source" /\ ~(RequiredKeys \subseteq DOMAIN obs.input))
        => /\ stats.failed_sources = obs.stats0.failed_sources + 1
           /\ \E k \in 1..Len(obs.log_calls) : obs.log_calls[k].status = "failed"

\* C7: when the embedding stage raises for the batch, the exception is
\* caught: the call goes on to save_chunks, save_chunks is handed every
\* tagged chunk, and failed_sources is left as it was.
C7_EmbeddingFailureKeepsChunks ==
    obs.embed_raised
        => /\ pc \in {"save_chunks", "log_success", "return_source"}
           /\ stats.failed_sources = obs.stats0.failed_sources
           /\ fr.tagged_chunks = KeptFrom(fr.chunks, 1, obs.raised)
           /\ pc # "save_chunks"
                 => obs.save_calls = <<KeptFrom(fr.chunks, 1, obs.raised)>>

C7_Witness ==
    /\ pc = "return_source"
    /\ obs.embed_raised
    /\ Len(obs.save_calls) = 1
    /\ Len(obs.save_calls[1]) = 2
    /\ fr.ret = Returned(2)

\* C8: when chunk_text returns no chunk, or the tagging of every chunk
\* raises, the call returns 0, save_chunks is not called, no chunk is
\* persisted and failed_sources is not incremented.
C8_NoChunkIsSucceededEmpty ==
    (/\ pc = "return_source"
     /\ obs.segmented
     /\ (fr.chunks = <<>> \/ obs.raised = 1..Len(fr.chunks)))
        => /\ fr.ret = Returned(0)
           /\ obs.save_calls = <<>>
           /\ db_chunks = obs.chunks0
           /\ stats.failed_sources = obs.stats0.failed_sources

C8_Witness ==
    /\ pc = "return_source"
    /\ Len(fr.chunks) = 2
    /\ obs.raised = {1, 2}
    /\ fr.ret = Returned(0)

\* C9: for a new source whose raw_content has fewer than 50 characters after
\* trimming, no chunk is persisted and exactly one log entry is written, with
\* status 'success' and items_scraped = 0.
C9_ShortContentLogsSuccess ==
    (/\ pc = "return_source"
     /\ ~obs.existed
     /\ obs.failed_step = "none"
     /\ "raw_content" \in DOMAIN obs.input
     /\ Len(strip(obs.input["raw_content"])) < MinContentLen)
        => /\ db_chunks = obs.chunks0
           /\ Len(obs.log_calls) = 1
           /\ obs.log_calls[1].status = "success"
           /\ obs.log_calls[1].items_scraped = 0

\* C10: the seq values of the chunks persisted for one source are 0..k-1, in
\* reading order, without gap or duplicate.
C10_SeqContiguous ==
    \A n \in 1..Len(db_sources) :
        LET seqs == SeqsOf(db_chunks, db_sources[n].id)
        IN  seqs = [i \in 1..Len(seqs) |-> i - 1]

\* the table an operation writes, before its k-th call and after it
TableAfter(k, table) ==
    IF k < Len(calls)
    THEN (CASE table = "sources" -> calls[k + 1].sources0
            [] table = "chunks"  -> calls[k + 1].chunks0
            [] table = "logs"    -> calls[k + 1].logs0)
    ELSE (CASE table = "sources" -> db_sources
            [] table = "chunks"  -> db_chunks
            [] table = "logs"    -> db_logs)

\* the calls of save_source that named a URL
SaveSourceCalls ==
    {k \in 1..Len(calls) :
        calls[k].op = "save_source" /\ "source_url" \in DOMAIN calls[k].arg}

RowsOf(rows, url) == {n \in 1..Len(rows) : rows[n].source_url = url}

\* C11: save_source is idempotent per source_url: a call that finds the URL
\* persisted returns the id of its row and adds nothing, two calls with the
\* same URL that return an id return the same one, and the table holds
\* exactly one row for the URL of a call that returned an id (never two rows
\* for one URL).
C11_SaveSourceIdempotent ==
    /\ \A k \in SaveSourceCalls :
          LET url   == calls[k].arg["source_url"]
              found == Existing(calls[k].sources0, url)
              after == TableAfter(k, "sources")
          IN  /\ (calls[k].db_ok /\ found # None)
                    => /\ calls[k].ret = <<found>>
                       /\ after = calls[k].sources0
              /\ calls[k].ret # <<None>>
                    => /\ Cardinality(RowsOf(after, url)) = 1
                       /\ \A n \in RowsOf(after, url) : calls[k].ret = <<after[n].id>>
    /\ \A i, j \in SaveSourceCalls :
          (/\ i < j
           /\ calls[i].arg["source_url"] = calls[j].arg["source_url"]
           /\ calls[i].ret # <<None>>
           /\ calls[j].ret # <<None>>)
              => calls[i].ret = calls[j].ret
    /\ \A n \in 1..Len(db_sources) :
          Cardinality(RowsOf(db_sources, db_sources[n].source_url)) = 1

C11_Witness ==
    /\ Len(calls) = 2
    /\ SaveSourceCalls = {1, 2}
    /\ calls[1].arg = calls[2].arg
    /\ calls[1].ret = <<"s1">>
    /\ calls[2].ret = <<"s1">>
    /\ Len(db_sources) = 1

\* C12: save_source, save_chunks and log_scraping never raise to the caller.
\* When the session fails (or the dict has no source_url) the table is as
\* before the call and the caller gets the sentinel: None, 0, nothing.
\* save_chunks persists all the given chunks and returns their number, or
\* persists none and returns 0.  No operation writes another table.
C12_PersistenceNeverRaises ==
    \A k \in 1..Len(calls) :
        LET c == calls[k]
        IN  /\ ~c.raised
            /\ c.op = "save_source"
                  => /\ (~c.db_ok \/ "source_url" \notin DOMAIN c.arg)
                           => /\ c.ret = <<None>>
                              /\ TableAfter(k, "sources") = c.sources0
                     /\ TableAfter(k, "chunks") = c.chunks0
                     /\ TableAfter(k, "logs") = c.logs0
            /\ c.op = "save_chunks"
                  => /\ \/ /\ c.ret = <<Len(c.arg)>>
                           /\ TableAfter(k, "chunks") = c.chunks0 \o ChunkRows(c.arg)
                        \/ /\ c.ret = <<0>>
                           /\ TableAfter(k, "chunks") = c.chunks0
                     /\ ~c.db_ok => c.ret = <<0>>
                     /\ TableAfter(k, "sources") = c.sources0
                     /\ TableAfter(k, "logs") = c.logs0
            /\ c.op = "log_scraping"
                  => /\ c.ret = <<>>
                     /\ ~c.db_ok => TableAfter(k, "logs") = c.logs0
                     /\ c.db_ok => Len(TableAfter(k, "logs")) = Len(c.logs0) + 1
                     /\ TableAfter(k, "sources") = c.sources0
                     /\ TableAfter(k, "chunks") = c.chunks0

C12_Witness ==
    /\ Len(calls) = 2
    /\ calls[1].op = "save_chunks" /\ calls[1].db_ok /\ Len(calls[1].arg) = 2
    /\ calls[2].op = "save_chunks" /\ ~calls[2].db_ok /\ Len(calls[2].arg) = 2
    /\ calls[2].ret = <<0>>
    /\ Len(db_chunks) = 2

\* C13: the statistics are reset at each invocation of run_full_pipeline:
\* every counter is 0 when a run starts.
C13_StatsResetAtRunStart ==
    (pc = "for_scraper_type" /\ run.i = 1) => stats = NewStats

\* C14: tag_chunk never raises, whatever the model call does (an exception,
\* text that is not JSON, JSON that is not an object, an object with missing
\* or malformed fields): it returns a tag result, and when the model call
\* itself fails that result is the default one, with confidence 0.3.
C14_TagChunkNeverRaises ==
    tag.at = "returned" =>
        /\ ~tag.ret.raised
        /\ tag.ret.value.kind = "object"
        /\ "confidence" \in DOMAIN tag.ret.value.fields
        /\ tag.ret.value.fields.confidence.kind = "number"
        /\ tag.response.raises =>
              /\ tag.ret.value = _get_default_tags
              /\ tag.ret.value.fields.confidence = Num(3, 10)

C14_Witness ==
    /\ tag.at = "returned"
    /\ tag.response.raises
    /\ tag.ret.value = _get_default_tags

\* C15: whenever the response text fails JSON decoding, tag_chunk returns
\* exactly the default result: domain governance, no issues, cohorts, actors
\* or actionability, both polarity objects neutral with score 0.5, and
\* confidence 0.3.
C15_DecodeFailureGivesDefault ==
    (/\ tag.at = "returned"
     /\ ~tag.response.raises
     /\ json_loads(Unfenced(tag.response.text)).exc)
        => tag.ret.value = _get_default_tags

\* the sentences of the text of the call of chunk_text
Sentences == split_sentences(seg.text)

\* the chunk is the given sentences, joined by single spaces
IsChunkOf(chunk, sentences) == chunk.text = Join(sentences)

\* C16: for every input of at least 50 trimmed characters, the seq values
\* of the chunks of chunk_text are exactly 0..n-1 in order, and the
\* word_count of each chunk is the number of whitespace-separated words of
\* its text.
C16_SeqAndWordCount ==
    (seg.at = "returned" /\ Len(strip(seg.text)) >= MinContentLen) =>
        \A i \in 1..Len(seg.chunks) :
            /\ seg.chunks[i].seq = i - 1
            /\ seg.chunks[i].word_count = WordCount(seg.chunks[i].text)

C16_Witness ==
    /\ seg.at = "returned"
    /\ Len(strip(seg.text)) >= MinContentLen
    /\ Len(seg.chunks) >= 3
    /\ seg.chunks[3].seq = 2
    /\ seg.chunks[3].word_count > chunk_size

\* a returned call on three sentences of which the first two fit in a chunk
\* and the third does not fit with them
ThreeSentencesSplitAtThird ==
    /\ seg.at = "returned"
    /\ Len(strip(seg.text)) >= MinContentLen
    /\ Len(Sentences) = 3
    /\ WordCount(Sentences[1]) + WordCount(Sentences[2]) <= chunk_size
    /\ SumWords(Sentences) > chunk_size

\* C17 (as stated): three sentences s1, s2, s3 with a chunk_size that forces
\* the split when s3 arrives give exactly two chunks, chunk 0 = s1 s2 and
\* chunk 1 = s2 s3 (one sentence of overlap), with seq 0 and 1.
C17_OneSentenceOverlap ==
    ThreeSentencesSplitAtThird =>
        /\ Len(seg.chunks) = 2
        /\ IsChunkOf(seg.chunks[1], <<Sentences[1], Sentences[2]>>)
        /\ IsChunkOf(seg.chunks[2], <<Sentences[2], Sentences[3]>>)
        /\ seg.chunks[1].seq = 0
        /\ seg.chunks[2].seq = 1

\* C17 (amended): three sentences s1, s2, s3 with a chunk_size that forces
\* the split when s3 arrives give exactly two chunks, chunk 0 = s1 s2 and
\* chunk 1 = s1 s2 s3 (the last two sentences of chunk 0 as overlap, then
\* s3), with seq 0 and 1.
C17_TwoSentenceOverlap ==
    ThreeSentencesSplitAtThird =>
        /\ Len(seg.chunks) = 2
        /\ IsChunkOf(seg.chunks[1], <<Sentences[1], Sentences[2]>>)
        /\ IsChunkOf(seg.chunks[2], <<Sentences[1], Sentences[2], Sentences[3]>>)
        /\ seg.chunks[1].seq = 0
        /\ seg.chunks[2].seq = 1

C17_Witness ==
    /\ ThreeSentencesSplitAtThird
    /\ Len(seg.chunks) = 2
    /\ seg.chunks[2].text = Join(Sentences)
    /\ seg.chunks[2].word_count > chunk_size

\* the sentences of more than chunk_size words of a returned call
OversizedIn(ss) == {j \in 1..Len(ss) : WordCount(ss[j]) > chunk_size}

Oversized == OversizedIn(Sentences)

\* the chunk holds sentence j: it is a run of sentences around it
ContainsOf(ss, chunk, j) ==
    \E a \in 1..j, b \in j..Len(ss) : IsChunkOf(chunk, SubSeq(ss, a, b))

Contains(chunk, j) == ContainsOf(Sentences, chunk, j)

\* C18 (as stated): a sentence of more words than chunk_size is never split
\* mid-sentence and is emitted as a chunk of its own: the chunk that
\* contains it holds only that sentence, wherever in the content it occurs.
C18_OversizedAlone ==
    (seg.at = "returned" /\ Len(strip(seg.text)) >= MinContentLen) =>
        \A j \in Oversized :
            /\ \E i \in 1..Len(seg.chunks) : seg.chunks[i].text = Sentences[j]
            /\ \A i \in 1..Len(seg.chunks) :
                  Contains(seg.chunks[i], j) => seg.chunks[i].text = Sentences[j]

\* C18 (amended): a sentence of more words than chunk_size is never split
\* mid-sentence: every chunk is a run of consecutive whole sentences, and
\* the sentence ends a chunk made of the up to two sentences before it and
\* itself, which holds only that sentence where it is the first sentence of
\* the content.
C18_OversizedKeptWhole ==
    (seg.at = "returned" /\ Len(strip(seg.text)) >= MinContentLen) =>
        \A ss \in {Sentences} :
            /\ \A i \in 1..Len(seg.chunks) :
                  \E b \in 1..Len(ss) : \E a \in 1..b :
                      IsChunkOf(seg.chunks[i], SubSeq(ss, a, b))
            /\ \A j \in OversizedIn(ss) :
                  \E i \in 1..Len(seg.chunks) :
                      IsChunkOf(seg.chunks[i],
                                SubSeq(ss, IF j > 2 THEN j - 2 ELSE 1, j))
            /\ 1 \in OversizedIn(ss) => seg.chunks[1].text = ss[1]

C18_Witness ==
    /\ seg.at = "returned"
    /\ Len(strip(seg.text)) >= MinContentLen
    /\ Len(Sentences) = 3
    /\ Oversized = {2}
    /\ Len(seg.chunks) = 3
    /\ IsChunkOf(seg.chunks[2], <<Sentences[1], Sentences[2]>>)

\* C19: for every input that is empty or has fewer than 50 characters once
\* trimmed, chunk_text returns the empty sequence, without error.
C19_ShortTextNoChunks ==
    (/\ seg.at = "returned"
     /\ \/ seg.text \in {<<>>, NoneText}
        \/ Len(strip(seg.text)) < MinContentLen)
        => seg.chunks = <<>>

C19_Witness ==
    /\ seg.at = "returned"
    /\ Len(seg.text) >= MinContentLen
    /\ Len(strip(seg.text)) < MinContentLen
    /\ Len(Sentences) >= 2
    /\ seg.chunks = <<>>

\* the positions of the events of the batch call that are groups, or sleeps
EventsOf(op) == {k \in 1..Len(batch.events) : batch.events[k].op = op}

\* ceil(len(texts) / batch_size)
GroupsExpected == (batch.len_texts + batch_size - 1) \div batch_size

\* C20: generate_batch_embeddings on N texts processes ceil(N / 100)
\* consecutive groups of at most 100 texts and sleeps rate_limit_delay
\* exactly once between consecutive groups: ceil(N / 100) - 1 sleeps for
\* N > 0, none after the last group, none for N = 0.  At every moment of a
\* call the groups and the sleeps alternate, starting with a group.
C20_SleepBetweenGroups ==
    batch.at # "idle" =>
        /\ \A k \in 1..Len(batch.events) :
              /\ batch.events[k].op = (IF k % 2 = 1 THEN "embed" ELSE "sleep")
              /\ batch.events[k].op = "embed" =>
                    /\ batch.events[k].n \in 1..batch_size
                    /\ k < Len(batch.events) => batch.events[k].n = batch_size
              /\ batch.events[k].op = "sleep" => batch.events[k].n = rate_limit_delay
        /\ batch.at = "returned" =>
              /\ Cardinality(EventsOf("embed")) = GroupsExpected
              /\ Cardinality(EventsOf("sleep")) =
                    (IF batch.len_texts > 0 THEN GroupsExpected - 1 ELSE 0)
              /\ batch.embeddings = batch.len_texts
              /\ batch.events # <<>> => batch.events[Len(batch.events)].op = "embed"

C20_Witness ==
    /\ batch.at = "returned"
    /\ batch.len_texts = 2 * batch_size + 1
    /\ Cardinality(EventsOf("embed")) = 3
    /\ Cardinality(EventsOf("sleep")) = 2
    /\ batch.events[5] = Embedded(1)

\* chunk i of the call of embed_chunks_batch cannot be embedded: its call
\* fails, or its text has fewer than 10 characters once trimmed
NotEmbeddable(i) ==
    \/ i \in emb.failing
    \/ Len(strip(emb.chunks[i].text)) < MinEmbedLen

\* C21: in embed_chunks_batch a chunk whose embedding call fails, or whose
\* text has fewer than 10 trimmed characters, gets embedding_vector None
\* and embedding_dimension 0, and every other chunk of the batch is still
\* embedded; the returned list holds the same chunks in the same order,
\* each vector being the one computed from that chunk's own text.
C21_FailedEmbeddingIsNone ==
    emb.at = "returned" =>
        /\ Len(emb.ret) = Len(emb.chunks)
        /\ \A i \in 1..Len(emb.chunks) :
              /\ \A k \in DOMAIN emb.chunks[i] : emb.ret[i][k] = emb.chunks[i][k]
              /\ NotEmbeddable(i) =>
                    /\ emb.ret[i]["embedding_vector"] = NoneText
                    /\ emb.ret[i]["embedding_dimension"] = 0
              /\ ~NotEmbeddable(i) =>
                    /\ emb.ret[i]["embedding_vector"] = EmbedContent(emb.chunks[i].text)
                    /\ emb.ret[i]["embedding_dimension"] = Len(EmbedContent(emb.chunks[i].text))

C21_Witness ==
    /\ emb.at = "returned"
    /\ Len(emb.chunks) = 3
    /\ emb.failing = {1}
    /\ Len(strip(emb.chunks[2].text)) < MinEmbedLen
    /\ emb.ret[1]["embedding_vector"] = NoneText
    /\ emb.ret[2]["embedding_vector"] = NoneText
    /\ emb.ret[3]["embedding_vector"] = EmbedContent(emb.chunks[3].text)

\* C22: main calls orchestrator.close() exactly once before it exits,
\* whether the run ends normally, is interrupted by the user or raises an
\* exception; and once the user has interrupted, no further source item is
\* handled: the count of handled items, the statistics and the tables stay
\* as they are.
C22_CloseExactlyOnce ==
    /\ [](proc.at # "idle" =>
            proc.closes = (IF proc.at = "exited" THEN 1 ELSE 0))
    /\ [][(proc.at # "idle" /\ proc.interrupted) =>
            /\ run' = run
            /\ stats' = stats
            /\ db_sources' = db_sources
            /\ db_chunks' = db_chunks
            /\ db_logs' = db_logs]_vars

C22_Witness ==
    /\ proc.at = "exited"
    /\ proc.interrupted
    /\ proc.during = "tag"
    /\ proc.closes = 1
    /\ run.handled = 1
    /\ db_logs = <<>>

\* some chunk of the current source has been through the embedder
SomeChunkEmbedded ==
    \E i \in 1..Len(fr.tagged_chunks) : "embedding_vector" \in DOMAIN fr.tagged_chunks[i]

\* C23 (as stated): the controller issues the external calls strictly
\* sequentially per chunk: for every source, the tagging and the embedding
\* of chunk i are both complete before the tagging of chunk i+1 begins.
C23_ChunkByChunk ==
    (/\ embedder
     /\ pc = "tag"
     /\ fr.chunk_idx <= Len(fr.chunks))
        => \A i \in 1..Len(fr.tagged_chunks) :
              "embedding_vector" \in DOMAIN fr.tagged_chunks[i]

\* C23 (amended): the controller issues the external calls strictly
\* sequentially, one phase after the other: for every source the chunks are
\* tagged one by one in order, and the one batch call that embeds them
\* begins only when the tagging of the last chunk is complete.
C23_TaggingThenEmbedding ==
    /\ obs.tag_calls = [i \in 1..Len(obs.tag_calls) |-> i]
    /\ obs.embed_calls <= 1
    /\ pc = "tag" =>
          /\ Len(obs.tag_calls) = fr.chunk_idx - 1
          /\ obs.embed_calls = 0
          /\ ~SomeChunkEmbedded
    /\ (obs.embed_calls = 1 \/ SomeChunkEmbedded \/ pc = "embed") =>
          /\ embedder
          /\ Len(obs.tag_calls) = Len(fr.chunks)
          /\ Len(fr.chunks) > 0

C23_Witness ==
    /\ pc = "save_chunks"
    /\ obs.embed_calls = 1
    /\ Len(obs.tag_calls) = 2
    /\ Len(fr.tagged_chunks) = 2
    /\ SomeChunkEmbedded

\* C24: on the path that reaches save_chunks, the count it returns is at
\* once the value _process_single_source returns, the items_scraped of the
\* success log entry and the amount added to total_chunks; hence at the end
\* of a run total_chunks is the number of chunk rows committed during that
\* run (run.chunks0 rows were there when it started).
C24_CountIsTotalChunks ==
    /\ (pc = "return_source" /\ obs.save_calls # <<>>) =>
          /\ fr.ret = Returned(fr.saved_count)
          /\ Len(obs.log_calls) = 1
          /\ obs.log_calls[1].status = "success"
          /\ obs.log_calls[1].items_scraped = fr.saved_count
          /\ stats.total_chunks = obs.stats0.total_chunks + fr.saved_count
          /\ Len(db_chunks) = Len(obs.chunks0) + fr.saved_count
    /\ pc = "done" => stats.total_chunks = Len(db_chunks) - run.chunks0

\* the sentences a..b of the text of the call of chunk_text
Run(a, b) == SubSeq(Sentences, a, b)

\* C25: whenever chunk_text closes chunk i, chunk i+1 starts with the last
\* two sentences of chunk i (all of them when chunk i has fewer than two)
\* followed by the sentence that triggered the split; so adjacent chunks
\* always share at least one sentence.  Chunk i is the sentences a..b, the
\* trigger is sentence b + 1, and chunk i+1 runs up to sentence c.
C25_OverlapOfTwoSentences ==
    (seg.at = "returned" /\ Len(strip(seg.text)) >= MinContentLen) =>
        \A ss \in {Sentences} : \A i \in 1..Len(seg.chunks) - 1 :
            \E b \in 1..Len(ss) - 1 : \E a \in 1..b : \E c \in b + 1..Len(ss) :
                /\ IsChunkOf(seg.chunks[i], SubSeq(ss, a, b))
                /\ IsChunkOf(seg.chunks[i + 1],
                             SubSeq(ss, IF b > a THEN b - 1 ELSE a, c))

C25_Witness ==
    /\ seg.at = "returned"
    /\ Len(strip(seg.text)) >= MinContentLen
    /\ Len(Sentences) = 6
    /\ Len(seg.chunks) = 2
    /\ IsChunkOf(seg.chunks[1], Run(1, 4))
    /\ IsChunkOf(seg.chunks[2], Run(3, 6))

\* C26: every sentence produced by _split_sentences appears in at least one
\* emitted chunk, every chunk is a non-empty contiguous run of sentences in
\* document order, and the sentences left after the last split are always
\* emitted as a final chunk, even when below chunk_size.
C26_EverySentenceEmitted ==
    (seg.at = "returned" /\ Len(strip(seg.text)) >= MinContentLen) =>
        \A ss \in {Sentences} :
            /\ \A j \in 1..Len(ss) :
                  \E i \in 1..Len(seg.chunks) : ContainsOf(ss, seg.chunks[i], j)
            /\ \A i \in 1..Len(seg.chunks) :
                  /\ seg.chunks[i].text # <<>>
                  /\ \E b \in 1..Len(ss) : \E a \in 1..b :
                        IsChunkOf(seg.chunks[i], SubSeq(ss, a, b))
            /\ ss # <<>> =>
                  /\ seg.chunks # <<>>
                  /\ \E a \in 1..Len(ss) :
                        IsChunkOf(seg.chunks[Len(seg.chunks)], SubSeq(ss, a, Len(ss)))

C26_Witness ==
    /\ seg.at = "returned"
    /\ Len(strip(seg.text)) >= MinContentLen
    /\ Len(Sentences) = 4
    /\ Len(seg.chunks) = 3
    /\ IsChunkOf(seg.chunks[3], Run(2, 4))
    /\ seg.chunks[3].word_count < chunk_size

\* the inputs of the confidence that are present in the tag object of the
\* call, in tenths: the score of a polarity object (5 when it carries none)
\* and 8 for a list that is not empty
PolarityInput(key) ==
    IF key \notin DOMAIN conf.tags_data.fields THEN <<>>
    ELSE IF "score" \notin DOMAIN conf.tags_data.fields[key].fields THEN <<5>>
    ELSE <<(conf.tags_data.fields[key].fields.score.num * 10)
              \div conf.tags_data.fields[key].fields.score.den>>

ListInput(key) ==
    IF key \in DOMAIN conf.tags_data.fields /\ conf.tags_data.fields[key].items # <<>>
    THEN <<8>> ELSE <<>>

ConfidenceInputs ==
    PolarityInput("leadership_polarity") \o PolarityInput("sentiment")
    \o ListInput("issues") \o ListInput("cohorts")

RECURSIVE SumOf(_)
SumOf(numbers) == IF numbers = <<>> THEN 0 ELSE Head(numbers) + SumOf(Tail(numbers))

\* C27: _calculate_confidence returns the arithmetic mean of the inputs that
\* are present among the leadership_polarity score (0.5 when the object
\* carries no score), the sentiment score (0.5 when it carries no score),
\* 0.8 if issues is not empty and 0.8 if cohorts is not empty; absent inputs
\* are left out of the average, and the result is 0.5 when none is present.
C27_ConfidenceIsMean ==
    conf.at = "returned" =>
        /\ ~conf.ret.exc
        /\ conf.ret.value.kind = "number"
        /\ IF ConfidenceInputs = <<>>
           THEN conf.ret.value = Num(5, 10)
           ELSE conf.ret.value.num * 10 * Len(ConfidenceInputs)
                    = SumOf(ConfidenceInputs) * conf.ret.value.den

C27_Witness ==
    /\ conf.at = "returned"
    /\ ConfidenceInputs = <<9, 5, 8>>
    /\ conf.ret.value = Num(22, 30)

\* C28: _print_final_report never divides by zero, for any reachable value
\* of the counters: the average of chunks per source and the success rate
\* total_sources / (total_sources + failed_sources) are computed only when
\* their denominators are not zero, also when both counters are 0.  The
\* report of every run, first or later, ends the run.
C28_ReportNeverDividesByZero ==
    /\ pc # "raised"
    /\ (pc = "for_scraper_type" /\ run.i > Len(run.scraper_types)) => ~ReportRaises(stats)
    /\ pc = "done" =>
          \/ stats.total_sources = 0
          \/ stats.total_sources + stats.failed_sources > 0

C28_Witness ==
    /\ pc = "done"
    /\ stats.total_sources = 0
    /\ stats.failed_sources = 0
    /\ run.attempted # <<>>

\* the counters one call of _process_single_source has incremented so far
CountedAs(counter) == stats[counter] - obs.stats0[counter]

LoopState == <<crawl.pages_to_scrape, crawl.visited_articles, crawl.sources>>

\* C30: scrape_media_source terminates on every finite site: each listing
\* page is fetched at most once, also when the pagination links form a cycle,
\* so that no turn of the loop leaves the loop as it found it.
C30_EachPageFetchedOnce ==
    /\ [](crawl.at # "idle" =>
             \A i, j \in 1..Len(crawl.fetched) :
                 i # j => crawl.fetched[i] # crawl.fetched[j])
    /\ [][crawl.at = "while" /\ crawl'.at = "while" => LoopState' # LoopState]_vars

====
